---- MODULE Spec2Model ----
\* Verification model of the hot-reload orchestrator (HotReloadService) and the
\* session/request layer (ServerConnection) of the iOS-on-VS-Code extension, and of
\* the message handling of the macOS server (iOSServer).
\*
\* The classes are modelled as state machines over disjoint variables:
\*   HotReloadService - file watcher handlers, debounce timer, reload cycles
\*   ServerConnection - connect, sendMessage, responses, timeouts, transport loss
\*   iOSServer        - requests of one client socket, their handlers and replies
\* Each specification drives one of them with the events its properties are about.
\* JavaScript runs every callback to its next await without interleaving, so one
\* action is one callback run from its entry (or its resumption) to its next
\* suspension point.
EXTENDS Integers, Sequences, FiniteSets, Bags, TLC

----------------------------------------------------------------------------
\* Bounds of the model
MaxHandlers == 2        \* handleFileChange invocations suspended at an await
MaxConns == 2           \* connect() calls whose Client, WebSocket or handler is still live
MaxConnects == 6        \* connect() calls in one behaviour
MaxPending == 2         \* sendMessage promises outstanding at the same time
NumIds == 2             \* values Math.random() draws the correlation id from
InitialResults == 48    \* results in the history when a history specification starts
MaxResults == 51        \* results appended to the history in one behaviour
MaxRequests == 3        \* messages the server receives on the socket in one behaviour

\* Files of the workspace and the contents the editor writes to them
Paths == {"Model.swift", "Store.swift", "LoginView.swift"}
PlainPaths == {"Model.swift", "Store.swift"}       \* not matched by **/*View.swift
Contents == {"x += 1", "struct S {}"}
Absent == "<absent>"
NoTimer == 0
NoConn == 0
maxReconnectAttempts == 5
HistoryCapacity == 50
MaxDeploys == 2      \* deployToTarget calls running at once
MaxRefreshes == 1    \* refreshDeploymentTargets calls running at once
NoObject == 0
Targets == {"mac-a", "mac-b"}      \* (host, port, username) a caller connects to
Ids == 1..NumIds

VARIABLES
    \* ---- HotReloadService
    config,          \* this.config (enabled, swiftUIPreviewMode, incrementalCompilation, autoSave)
    debounceTimer,   \* this.debounceTimer: handle of the last timer armed, NoTimer for null
    timers,          \* armed setTimeout timers of the run time: set of [id, force]
    changeQueue,     \* this.changeQueue: Map in insertion order, Seq of [path, content]
    buildCache,      \* this.buildCache: path -> cached content, Absent when no entry
    isReloading,     \* this.isReloading
    cycles,          \* performHotReload invocations suspended at an awaited request
    handlers,        \* handleFileChange invocations suspended at save / readFile (a bag)
    disk,            \* the workspace files: path -> content, Absent when deleted
    srvConnected,    \* what serverConnection.isConnected() returns to the service
    reloadHistory,   \* this.reloadHistory: Seq of results, oldest first. The service only
                     \* appends to it and hands out copies, so a specification whose
                     \* properties do not read it (no "history" in track) leaves it empty
    \* ---- history variables, read by the properties only; a specification records
    \* ---- the ones named in track and leaves the others at their initial value
    track,           \* names of the history variables this specification records
    lastEvent,       \* path -> content of the last event accepted for it since the queue was cleared
    burst,           \* paths recorded since the last trigger or cycle end; ok: distinct, no cycle running
    ev,              \* the handler that ran in the last step and the requests it sent
                     \* (tracked as sentLog: every request sent so far)
    \* ---- ServerConnection
    connected,       \* this.connected
    reconnectAttempts, \* this.reconnectAttempts
    serverHost,      \* this.serverHost, serverPort and username: the target of the last connect()
    sshClient,       \* this.sshClient: the connection whose Client it is, NoConn for null
    websocket,       \* this.websocket: the connection whose WebSocket it is, NoConn for null
    conns,           \* the objects of each connect() call: prompt, Client, WebSocket, ready handler, promise
    nConns,          \* number of connect() calls so far (bounded by MaxConnects)
    reconnectTimers, \* armed reconnect timers of handleConnectionError
    requests,        \* the sendMessage promises not settled yet: slot -> [id, timer, caller]
    pendingRequests, \* this.pendingRequests: correlation id -> the slot whose closures it holds
    \* ---- history variables of the connection
    timedOut,        \* correlation ids of the requests rejected by their timeout
    cev,             \* the handler that ran in the last step and what it did
    \* ---- iOSServer, for the socket ws of one client
    srvSocket,       \* ws.readyState as the server sees it
    srvSessions,     \* number of entries of this.clients whose websocket is ws
    srvHandlers,     \* handleClientMessage invocations suspended at their awaited handler
    buildProcess,    \* this.buildProcess: the request that spawned it, 0 for null
    srvSent,         \* the messages written to ws, in order: [type, id, message, req]
    \* ---- history variable of the server
    srvRequests,     \* the messages received, in order: [type, id, state, open]
    \* ---- DeploymentService
    deploymentTargets, \* this.deploymentTargets: target id -> the object stored, [obj, status]
    deployments,     \* deployToTarget calls suspended at a request: [obj, target, step]
    refreshes,       \* refreshDeploymentTargets calls suspended at a request: [id, step]
    \* ---- history variable of the deployment service
    dev              \* the call or continuation of the last step: [op, target, sent]

varsReload == <<config, debounceTimer, timers, changeQueue, buildCache, isReloading,
                cycles, handlers, disk, srvConnected, reloadHistory, track, lastEvent,
                burst, ev>>

varsConn == <<connected, reconnectAttempts, serverHost, sshClient, websocket, conns,
              nConns, reconnectTimers, requests, pendingRequests, timedOut, cev>>

varsServer == <<srvSocket, srvSessions, srvHandlers, buildProcess, srvSent, srvRequests>>

varsDeploy == <<deploymentTargets, deployments, refreshes, dev>>

vars == <<varsReload, varsConn, varsServer, varsDeploy>>

----------------------------------------------------------------------------
\* Map helpers: this.changeQueue is a JavaScript Map, which keeps insertion order
\* and keeps the position of a key that is set again.

QueueKeys(q) == [i \in 1..Len(q) |-> q[i].path]

QueueHas(q, p) == \E i \in 1..Len(q) : q[i].path = p

QueueGet(q, p) == q[CHOOSE i \in 1..Len(q) : q[i].path = p].content

QueueSet(q, p, c) ==
    IF QueueHas(q, p)
    THEN [i \in 1..Len(q) |-> IF q[i].path = p THEN [path |-> p, content |-> c] ELSE q[i]]
    ELSE Append(q, [path |-> p, content |-> c])

SeqToSet(s) == {s[i] : i \in 1..Len(s)}

----------------------------------------------------------------------------
\* analyzeChanges: String.includes on the path and the content. The contents of
\* the model are listed with the markers they contain.

PathIsView(p) == p \in {"LoginView.swift"}              \* includes("View.swift")
ManifestPath == "Package.swift"
PathIsManifest(p) == p \in {"Package.swift"}            \* includes("Package.swift")
HasViewMarker(c) == c \in {"@State var n", "var body: some View {"}
HasStructureKeyword(c) == c \in {"struct S {}", "import UIKit", "enum E {}"}
HasMainMarker(c) == c \in {"@main"}

Basename(p) ==
    CASE p = "LoginView.swift" -> "LoginView"
      [] p = "Model.swift" -> "Model"
      [] p = "Package.swift" -> "Package"
      [] OTHER -> p

Min(a, b) == IF a < b THEN a ELSE b

\* One iteration of the loop over changedFiles: the three ifs run in this order
\* and each one overwrites changeType.
AnalyzeFile(acc, p, c) ==
    LET isView == PathIsView(p) \/ HasViewMarker(c)
        a1 == IF isView
              THEN [acc EXCEPT !.type = "ui-only",
                               !.affectedComponents = Append(@, Basename(p))]
              ELSE acc
        a2 == IF HasStructureKeyword(c)
              THEN [a1 EXCEPT !.type = "structure", !.requiresFullRebuild = TRUE]
              ELSE a1
        a3 == IF PathIsManifest(p) \/ HasMainMarker(c)
              THEN [a2 EXCEPT !.type = "dependency", !.requiresFullRebuild = TRUE]
              ELSE a2
    IN a3

RECURSIVE AnalyzeLoop(_, _, _)
AnalyzeLoop(acc, q, i) ==
    IF i > Len(q) THEN acc
    ELSE AnalyzeLoop(AnalyzeFile(acc, q[i].path, q[i].content), q, i + 1)

\* The switch of lines 323-336
EstimatedRebuildTime_Unclamped(type, n) ==
    CASE type = "ui-only" -> n * 200
      [] type = "logic" -> n * 500
      [] type = "structure" -> n * 1000
      [] type = "dependency" -> 30000

EstimatedRebuildTime(type, n) ==
    CASE type = "ui-only" -> Min(n * 200, 2000)
      [] type = "logic" -> Min(n * 500, 5000)
      [] type = "structure" -> Min(n * 1000, 15000)
      [] type = "dependency" -> 30000

analyzeChanges(q) ==
    LET r == AnalyzeLoop([type |-> "logic", requiresFullRebuild |-> FALSE,
                          affectedComponents |-> <<>>], q, 1)
    IN [type |-> r.type,
        files |-> QueueKeys(q),
        affectedComponents |-> r.affectedComponents,
        requiresFullRebuild |-> r.requiresFullRebuild,
        estimatedRebuildTime |-> EstimatedRebuildTime(r.type, Len(q))]

getReloadStrategy(analysis, cfg) ==
    IF analysis.type = "ui-only" /\ cfg.swiftUIPreviewMode /\ Len(analysis.files) <= 3
    THEN "swiftui-preview"
    ELSE IF cfg.incrementalCompilation /\ ~analysis.requiresFullRebuild
            /\ Len(analysis.files) <= 10
    THEN "incremental"
    ELSE "full"

\* performHotReload line 240
SelectStrategy_TableOnly(force, analysis, cfg) ==
    IF force THEN "full" ELSE getReloadStrategy(analysis, cfg)

SelectStrategy(force, analysis, cfg) ==
    IF force \/ analysis.requiresFullRebuild THEN "full"
    ELSE getReloadStrategy(analysis, cfg)

\* The requests a strategy sends, one after the other, each awaited.
RequestCount(c) ==
    CASE c.strategy = "swiftui-preview" -> Len(c.files)
      [] c.strategy = "incremental" -> 2
      [] c.strategy = "full" -> Len(c.files) + 2

\* The strategies read the content of a file from the live queue when they send it.
NeedsContent(c, i) ==
    \/ c.strategy = "swiftui-preview"
    \/ c.strategy = "full" /\ i <= Len(c.files)

RequestAt(c, i, q) ==
    CASE c.strategy = "swiftui-preview" ->
            [type |-> "swiftui_preview_update", path |-> c.files[i],
             content |-> QueueGet(q, c.files[i])]
      [] c.strategy = "incremental" /\ i = 1 ->
            [type |-> "incremental_build", path |-> "", content |-> ""]
      [] c.strategy = "incremental" /\ i = 2 ->
            [type |-> "apply_incremental_update", path |-> "", content |-> ""]
      [] c.strategy = "full" /\ i <= Len(c.files) ->
            [type |-> "sync_file", path |-> c.files[i],
             content |-> QueueGet(q, c.files[i])]
      [] c.strategy = "full" /\ i = Len(c.files) + 1 ->
            [type |-> "build_project", path |-> "", content |-> ""]
      [] c.strategy = "full" /\ i = Len(c.files) + 2 ->
            [type |-> "run_project", path |-> "", content |-> ""]

\* The request types the three strategies send
StrategyTypes == {"swiftui_preview_update", "incremental_build", "apply_incremental_update",
                  "sync_file", "build_project", "run_project"}

\* updateBuildCache: one entry per record of the live queue
updateBuildCache(cache, q) ==
    [p \in DOMAIN cache |-> IF QueueHas(q, p) THEN QueueGet(q, p) ELSE cache[p]]

----------------------------------------------------------------------------
\* History variables

SetEv(op, sent) ==
    ev' = IF "ev" \in track THEN [op |-> op, sent |-> sent]
          ELSE IF "sentLog" \in track THEN [op |-> "any", sent |-> ev.sent \o sent]
          ELSE ev

SetBurst(b) ==
    burst' = IF "burst" \in track THEN b ELSE burst

SetLastEvent(f) ==
    lastEvent' = IF "lastEvent" \in track THEN f ELSE lastEvent

BurstReset(reloading) == [paths |-> {}, ok |-> ~reloading]

BurstRecord(p) ==
    [burst EXCEPT !.paths = @ \cup {p},
                  !.ok = @ /\ p \notin burst.paths /\ ~isReloading]

----------------------------------------------------------------------------
\* HotReloadService: initial state (field initialisers and constructor)

InitReload ==
    /\ config = [enabled |-> TRUE, swiftUIPreviewMode |-> TRUE,
                 incrementalCompilation |-> TRUE, autoSave |-> TRUE]
    /\ debounceTimer = NoTimer
    /\ timers = {}
    /\ changeQueue = <<>>
    /\ buildCache = [p \in Paths |-> Absent]
    /\ isReloading = FALSE
    /\ cycles = {}
    /\ handlers = EmptyBag
    /\ disk = [p \in Paths |-> "x += 1"]
    /\ srvConnected = TRUE
    /\ reloadHistory = <<>>
    /\ lastEvent = [p \in Paths |-> Absent]
    /\ burst = [paths |-> {}, ok |-> TRUE]
    /\ ev = [op |-> "init", sent |-> <<>>]

\* The smallest identifier no live object of the set uses
FreshId(used) == CHOOSE n \in 1..(Cardinality(used) + 1) :
                    n \notin used /\ \A m \in 1..(n - 1) : m \in used

TimerIds(ts) == {t.id : t \in ts}

\* clearTimeout(this.debounceTimer) when the handle is set: a no-op on a fired timer
ClearDebounce_Never(ts, handle) == ts

ClearDebounce(ts, handle) ==
    IF handle # NoTimer THEN {t \in ts : t.id # handle} ELSE ts

\* triggerHotReload(forceFullRebuild): cancel the armed timer, arm a new one. The
\* callback of the new timer holds forceFullRebuild; wanted (a history field) tells
\* whether the timer, or one it replaced, was armed for a forced rebuild.
triggerHotReload(force) ==
    LET kept == ClearDebounce(timers, debounceTimer)
        id == FreshId(TimerIds(kept))
        wanted == force \/ ("forced" \in track /\ \E t \in timers \ kept : t.wanted)
    IN /\ timers' = kept \cup {[id |-> id, force |-> force, wanted |-> wanted]}
       /\ debounceTimer' = id

\* Lines 150-155 of handleFileChange: changeQueue.set and triggerHotReload()
Record(p, c) ==
    /\ changeQueue' = QueueSet(changeQueue, p, c)
    /\ triggerHotReload(FALSE)
    /\ cycles' = IF "recorded" \in track
                 THEN {[k EXCEPT !.recorded = @ \cup {p}] : k \in cycles}
                 ELSE cycles
    /\ SetBurst(BurstRecord(p))

\* The guard of performHotReload
CycleInProgress_Never == FALSE

CycleInProgress == isReloading

\* performHotReload(force), from its call to its first awaited request. Nothing is
\* awaited between the guard and the analysis.
performHotReload(force, op) ==
    IF CycleInProgress
    THEN /\ UNCHANGED <<isReloading, cycles, changeQueue, buildCache, reloadHistory>>
         /\ SetEv(op, <<>>)
         /\ SetBurst(BurstReset(isReloading))
    ELSE LET analysis == analyzeChanges(changeQueue)
             c0 == [id |-> FreshId({k.id : k \in cycles}),
                    files |-> analysis.files,
                    strategy |-> SelectStrategy(force, analysis, config),
                    force |-> force,
                    i |-> 1,
                    recorded |-> {},
                    analysis |-> IF "analysis" \in track THEN analysis ELSE <<>>,
                    batch |-> IF "batch" \in track THEN changeQueue ELSE <<>>,
                    sent |-> <<>>]
         IN /\ isReloading' = TRUE
            /\ cycles' = cycles \cup {[c0 EXCEPT !.sent =
                                          IF "batch" \in track
                                          THEN <<RequestAt(c0, 1, changeQueue)>>
                                          ELSE <<>>]}
            /\ SetEv(op, <<RequestAt(c0, 1, changeQueue)>>)
            /\ SetBurst(BurstReset(TRUE))
            /\ UNCHANGED <<changeQueue, buildCache, reloadHistory>>

\* The name a strategy gives itself in its result and in its error message
StrategyLabel(strategy) ==
    CASE strategy = "swiftui-preview" -> "SwiftUI Preview"
      [] strategy = "incremental" -> "Incremental"
      [] strategy = "full" -> "Full Rebuild"

\* The result a strategy returns (duration and warnings are not modelled)
StrategyResult(c) ==
    [success |-> TRUE, changeType |-> StrategyLabel(c.strategy), errors |-> <<>>]

\* The result the catch block of performHotReload builds from the error the strategy
\* rethrew: errors holds its message, here the strategy that failed
CatchResult_NoError(c) ==
    [success |-> TRUE, changeType |-> "error", errors |-> <<>>]

CatchResult(c) ==
    [success |-> FALSE, changeType |-> "error", errors |-> <<StrategyLabel(c.strategy)>>]

\* The number of results appended to the history so far (seq of the newest)
Appended == IF reloadHistory = <<>> THEN 0 ELSE reloadHistory[Len(reloadHistory)].seq

\* reloadHistory.push(result) and the shift() that follows it (lines 279-282). seq
\* numbers the results in the order they were appended; only the properties read it.
PushHistory_NoShift(h, r) == Append(h, r)

PushHistory(h, r) ==
    LET pushed == Append(h, r)
    IN IF Len(pushed) > HistoryCapacity THEN Tail(pushed) ELSE pushed

\* The end of a cycle (finally block): the guard is cleared, the result is appended
FinishCycle(c, op, result) ==
    /\ isReloading' = FALSE
    /\ cycles' = cycles \ {c}
    /\ reloadHistory' = IF "history" \in track
                        THEN PushHistory(reloadHistory,
                                 [success |-> result.success, changeType |-> result.changeType,
                                  errors |-> result.errors, seq |-> Appended + 1])
                        ELSE reloadHistory
    /\ SetEv(op, <<>>)
    /\ SetBurst(BurstReset(FALSE))

\* catch block of performHotReload: the queue and the cache are left as they are
FailCycle_Clearing(c) ==
    /\ FinishCycle(c, "cycleFailure", CatchResult(c))
    /\ changeQueue' = <<>>
    /\ UNCHANGED <<buildCache, lastEvent>>

FailCycle(c) ==
    /\ FinishCycle(c, "cycleFailure", CatchResult(c))
    /\ UNCHANGED <<changeQueue, buildCache, lastEvent>>

\* Lines 256-263 of performHotReload: updateBuildCache() and changeQueue.clear()
SucceedCycle(c) ==
    /\ FinishCycle(c, "cycleSuccess", StrategyResult(c))
    /\ buildCache' = updateBuildCache(buildCache, changeQueue)
    /\ changeQueue' = <<>>
    /\ SetLastEvent([p \in Paths |-> Absent])

----------------------------------------------------------------------------
\* HotReloadService: actions

Handler(p, pc, c) == [path |-> p, pc |-> pc, content |-> c]

\* handleSwiftUIChange from the change event of the **/*View.swift watcher to its
\* first await: the handlers it leaves suspended. With preview mode off it is
\* handleFileChange(uri, "change"); with preview mode on it awaits readFile whether
\* or not hot reload is enabled and the server connected.
handleSwiftUIChange(p, kind, dirty) ==
    IF ~(PathIsView(p) /\ kind = "change") THEN EmptyBag
    ELSE IF config.swiftUIPreviewMode THEN SetToBag({Handler(p, "uiRead", Absent)})
    ELSE IF ~config.enabled \/ ~srvConnected THEN EmptyBag
    ELSE SetToBag({Handler(p, IF config.autoSave /\ dirty THEN "save" ELSE "read", Absent)})

\* The editor or the user writes, creates or deletes a file; the watchers that
\* match the path deliver the event, and handleFileChange (and handleSwiftUIChange
\* for a view file) runs to its first await.
FsEdit(p, c, dirty) ==
    /\ UNCHANGED <<varsConn, varsServer, varsDeploy>>
    /\ c = Absent => disk[p] # Absent
    /\ disk' = [disk EXCEPT ![p] = c]
    /\ LET kind == IF c = Absent THEN "delete"
                   ELSE IF disk[p] = Absent THEN "create" ELSE "change"
           ui == handleSwiftUIChange(p, kind, dirty)
       IN IF ~config.enabled \/ ~srvConnected
          THEN /\ SetEv("eventDropped", <<>>)
               /\ BagCardinality(handlers (+) ui) <= MaxHandlers
               /\ handlers' = handlers (+) ui
               /\ UNCHANGED <<debounceTimer, timers, changeQueue, cycles,
                              lastEvent, burst>>
          ELSE /\ SetLastEvent([lastEvent EXCEPT ![p] = IF c = Absent THEN "" ELSE c])
               /\ IF kind = "delete"
                  THEN /\ Record(p, "")
                       /\ SetEv("record", <<>>)
                       /\ UNCHANGED handlers
                  ELSE /\ BagCardinality(handlers (+) ui) < MaxHandlers
                       /\ handlers' = handlers (+) ui (+) SetToBag({Handler(p,
                               IF config.autoSave /\ kind = "change" /\ dirty
                               THEN "save" ELSE "read", Absent)})
                       /\ SetEv("event", <<>>)
                       /\ UNCHANGED <<debounceTimer, timers, changeQueue, cycles, burst>>
    /\ UNCHANGED <<reloadHistory, config, buildCache, isReloading, srvConnected, track>>

\* await document.save() returns: the buffer b was written to the file. The watcher
\* delivers the event of this write to a second handleFileChange.
SaveDone(h, b) ==
    /\ UNCHANGED <<varsConn, varsServer, varsDeploy>>
    /\ h.pc = "save"
    /\ disk' = [disk EXCEPT ![h.path] = b]
    /\ LET rest == (handlers (-) SetToBag({h})) (+) SetToBag({[h EXCEPT !.pc = "read"]})
                      (+) handleSwiftUIChange(h.path, "change", FALSE)
       IN IF ~config.enabled \/ ~srvConnected
          THEN /\ BagCardinality(rest) <= MaxHandlers
               /\ handlers' = rest
               /\ UNCHANGED lastEvent
          ELSE /\ BagCardinality(rest) < MaxHandlers
               /\ handlers' = rest (+) SetToBag({Handler(h.path, "read", Absent)})
               /\ SetLastEvent([lastEvent EXCEPT ![h.path] = b])
    /\ SetEv("saved", <<>>)
    /\ UNCHANGED <<reloadHistory, config, debounceTimer, timers, changeQueue, buildCache, isReloading,
                   cycles, srvConnected, track, burst>>

\* The file system serves vscode.workspace.fs.readFile: it reads the file as it is now
ReadServed(h) ==
    /\ UNCHANGED <<varsConn, varsServer, varsDeploy>>
    /\ h.pc = "read"
    /\ handlers' = (handlers (-) SetToBag({h}))
                      (+) SetToBag({[h EXCEPT !.pc = "readDone", !.content = disk[h.path]]})
    /\ SetEv("readServed", <<>>)
    /\ UNCHANGED <<reloadHistory, config, debounceTimer, timers, changeQueue, buildCache, isReloading,
                   cycles, disk, srvConnected, track, lastEvent, burst>>

\* await readFile returns (or throws) and handleFileChange runs to its end
ReadComplete(h) ==
    /\ UNCHANGED <<varsConn, varsServer, varsDeploy>>
    /\ h.pc = "readDone"
    /\ handlers' = handlers (-) SetToBag({h})
    /\ IF h.content = Absent
       THEN /\ SetEv("readFailed", <<>>)
            /\ UNCHANGED <<debounceTimer, timers, changeQueue, cycles, burst>>
       ELSE /\ Record(h.path, h.content)
            /\ SetEv("record", <<>>)
    /\ UNCHANGED <<reloadHistory, config, buildCache, isReloading, disk, srvConnected, track, lastEvent>>

\* The file system serves the readFile of handleSwiftUIChange
UiReadServed(h) ==
    /\ UNCHANGED <<varsConn, varsServer, varsDeploy>>
    /\ h.pc = "uiRead"
    /\ handlers' = (handlers (-) SetToBag({h}))
                      (+) SetToBag({[h EXCEPT !.pc = "uiReadDone", !.content = disk[h.path]]})
    /\ SetEv("uiReadServed", <<>>)
    /\ UNCHANGED <<reloadHistory, config, debounceTimer, timers, changeQueue, buildCache, isReloading,
                   cycles, disk, srvConnected, track, lastEvent, burst>>

\* The catch block of handleSwiftUIChange: handleFileChange(uri, "change") runs to
\* its first await
UiFallback(h, dirty) ==
    IF ~config.enabled \/ ~srvConnected THEN handlers (-) SetToBag({h})
    ELSE (handlers (-) SetToBag({h}))
            (+) SetToBag({Handler(h.path, IF config.autoSave /\ dirty THEN "save" ELSE "read",
                                  Absent)})

\* await readFile of handleSwiftUIChange returns and swiftui_preview_update is sent,
\* or it throws and the handler falls back to handleFileChange
UiReadComplete(h, dirty) ==
    /\ UNCHANGED <<varsConn, varsServer, varsDeploy>>
    /\ h.pc = "uiReadDone"
    /\ IF h.content = Absent
       THEN /\ handlers' = UiFallback(h, dirty)
            /\ SetEv("uiReadFailed", <<>>)
       ELSE /\ handlers' = (handlers (-) SetToBag({h})) (+) SetToBag({[h EXCEPT !.pc = "uiSend"]})
            /\ SetEv("uiSend", <<[type |-> "swiftui_preview_update", path |-> h.path,
                                  content |-> h.content]>>)
    /\ UNCHANGED <<reloadHistory, config, debounceTimer, timers, changeQueue, buildCache, isReloading,
                   cycles, disk, srvConnected, track, lastEvent, burst>>

\* The request of handleSwiftUIChange is resolved
UiSendResolved(h) ==
    /\ UNCHANGED <<varsConn, varsServer, varsDeploy>>
    /\ h.pc = "uiSend"
    /\ handlers' = handlers (-) SetToBag({h})
    /\ SetEv("uiDone", <<>>)
    /\ UNCHANGED <<reloadHistory, config, debounceTimer, timers, changeQueue, buildCache, isReloading,
                   cycles, disk, srvConnected, track, lastEvent, burst>>

\* The request of handleSwiftUIChange is rejected: fallback to handleFileChange
UiSendRejected(h, dirty) ==
    /\ UNCHANGED <<varsConn, varsServer, varsDeploy>>
    /\ h.pc = "uiSend"
    /\ handlers' = UiFallback(h, dirty)
    /\ SetEv("uiFailed", <<>>)
    /\ UNCHANGED <<reloadHistory, config, debounceTimer, timers, changeQueue, buildCache, isReloading,
                   cycles, disk, srvConnected, track, lastEvent, burst>>

\* handleConfigChange (the Package.swift watcher)
ConfigChange ==
    /\ UNCHANGED <<varsConn, varsServer, varsDeploy>>
    /\ buildCache' = [p \in Paths |-> Absent]
    /\ triggerHotReload(TRUE)
    /\ SetEv("configChange", <<>>)
    /\ UNCHANGED <<reloadHistory, config, changeQueue, isReloading, cycles, handlers, disk,
                   srvConnected, track, lastEvent, burst>>

\* The manifest is written: the **/*.swift watcher and the **/Package.swift watcher
\* both deliver the change. handleFileChange runs to its first await, then
\* handleConfigChange clears the cache and arms the timer of a forced rebuild.
ManifestChange(c, dirty) ==
    /\ UNCHANGED <<varsConn, varsServer, varsDeploy>>
    /\ disk[ManifestPath] # Absent /\ c # Absent
    /\ disk' = [disk EXCEPT ![ManifestPath] = c]
    /\ handlers' = IF ~config.enabled \/ ~srvConnected THEN handlers
                   ELSE handlers (+) SetToBag({Handler(ManifestPath,
                            IF config.autoSave /\ dirty THEN "save" ELSE "read", Absent)})
    /\ BagCardinality(handlers') <= MaxHandlers
    /\ buildCache' = [p \in DOMAIN buildCache |-> Absent]
    /\ triggerHotReload(TRUE)
    /\ SetEv("configChange", <<>>)
    /\ UNCHANGED <<reloadHistory, config, changeQueue, isReloading, cycles, srvConnected,
                   track, lastEvent, burst>>

\* The debounce timer t fires: its callback calls performHotReload
TimerFire(t) ==
    /\ UNCHANGED <<varsConn, varsServer, varsDeploy>>
    /\ t \in timers
    /\ timers' = timers \ {t}
    /\ performHotReload(t.force, "timerFire")
    /\ UNCHANGED <<config, debounceTimer, handlers, disk, srvConnected, track, lastEvent>>

\* forceReload()
ForceReload ==
    /\ UNCHANGED <<varsConn, varsServer, varsDeploy>>
    /\ IF ~srvConnected
       THEN /\ SetEv("forceRefused", <<>>)
            /\ UNCHANGED <<isReloading, cycles, changeQueue, buildCache, burst,
                           reloadHistory>>
       ELSE performHotReload(TRUE, "forceReload")
    /\ UNCHANGED <<config, debounceTimer, timers, handlers, disk, srvConnected, track,
                   lastEvent>>

\* The request a cycle awaits is resolved: the strategy sends its next request, or
\* returns and the cycle ends
RequestResolved(c) ==
    /\ UNCHANGED <<varsConn, varsServer, varsDeploy>>
    /\ c \in cycles
    /\ LET n == c.i + 1
       IN IF n > RequestCount(c)
          THEN SucceedCycle(c)
          ELSE IF NeedsContent(c, n) /\ ~QueueHas(changeQueue, c.files[n])
          THEN FailCycle(c)
          ELSE /\ cycles' = (cycles \ {c}) \cup
                            {[c EXCEPT !.i = n,
                                       !.sent = IF "batch" \in track
                                                THEN Append(@, RequestAt(c, n, changeQueue))
                                                ELSE @]}
               /\ SetEv("cycleStep", <<RequestAt(c, n, changeQueue)>>)
               /\ UNCHANGED <<isReloading, changeQueue, buildCache, lastEvent, burst,
                              reloadHistory>>
    /\ UNCHANGED <<config, debounceTimer, timers, handlers, disk, srvConnected, track>>

\* The request a cycle awaits is rejected (remote error, timeout, connection closed,
\* not connected)
RequestRejected(c) ==
    /\ UNCHANGED <<varsConn, varsServer, varsDeploy>>
    /\ c \in cycles
    /\ FailCycle(c)
    /\ UNCHANGED <<config, debounceTimer, timers, handlers, disk, srvConnected, track>>

\* toggle()
Toggle ==
    /\ UNCHANGED <<varsConn, varsServer, varsDeploy>>
    /\ config' = [config EXCEPT !.enabled = ~@]
    /\ SetEv("toggle", <<>>)
    /\ UNCHANGED <<reloadHistory, debounceTimer, timers, changeQueue, buildCache, isReloading, cycles,
                   handlers, disk, srvConnected, track, lastEvent, burst>>

\* The session is established or lost: isConnected() changes
SrvConnectionChange ==
    /\ UNCHANGED <<varsConn, varsServer, varsDeploy>>
    /\ srvConnected' = ~srvConnected
    /\ SetEv("connection", <<>>)
    /\ UNCHANGED <<reloadHistory, config, debounceTimer, timers, changeQueue, buildCache, isReloading,
                   cycles, handlers, disk, track, lastEvent, burst>>

----------------------------------------------------------------------------
\* DeploymentService

SimTargets == {"sim-1"}
DevTargets == {"dev-1"}
DeployTargets == SimTargets \cup DevTargets

\* this.deploymentTargets.get(id) is undefined
NoEntry == [obj |-> NoObject, status |-> "none"]

\* private deploymentTargets = new Map()
InitDeploy ==
    /\ deploymentTargets = [t \in DeployTargets |-> NoEntry]
    /\ deployments = {}
    /\ refreshes = {}
    /\ dev = [op |-> "init", target |-> "", sent |-> <<>>]

\* The objects the map or a running call refers to
LiveObjects ==
    {deploymentTargets[t].obj : t \in DeployTargets} \cup {d.obj : d \in deployments}

\* this.deploymentTargets.set(id, {...}): a new object replaces the one stored
\* under the id; t = "" is a reply that lists nothing
SetTarget(t, up) ==
    [x \in DeployTargets |->
        IF x = t
        THEN [obj |-> FreshId(LiveObjects \ {NoObject}),
              status |-> IF up THEN "available" ELSE "unavailable"]
        ELSE deploymentTargets[x]]

\* refreshDeploymentTargets() from its call to the get_simulators request
RefreshStart ==
    /\ IF ~srvConnected
       THEN /\ dev' = [op |-> "refreshSkipped", target |-> "", sent |-> <<>>]
            /\ UNCHANGED refreshes
       ELSE /\ Cardinality(refreshes) < MaxRefreshes
            /\ refreshes' = refreshes \cup
                   {[id |-> FreshId({r.id : r \in refreshes}), step |-> "simulators"]}
            /\ dev' = [op |-> "refresh", target |-> "", sent |-> <<"get_simulators">>]
    /\ UNCHANGED <<deploymentTargets, deployments>>
    /\ UNCHANGED <<varsReload, varsConn, varsServer>>

\* get_simulators is answered: the simulator listed is stored, available when it is
\* booted, and get_physical_devices is sent
RefreshSimulators(r, t, up) ==
    /\ r.step = "simulators"
    /\ deploymentTargets' = SetTarget(t, up)
    /\ refreshes' = (refreshes \ {r}) \cup {[r EXCEPT !.step = "devices"]}
    /\ dev' = [op |-> "refreshSimulators", target |-> t, sent |-> <<"get_physical_devices">>]
    /\ UNCHANGED deployments
    /\ UNCHANGED <<varsReload, varsConn, varsServer>>

\* get_physical_devices is answered: the device listed is stored, available when it
\* is connected
RefreshDevices(r, t, up) ==
    /\ r.step = "devices"
    /\ deploymentTargets' = SetTarget(t, up)
    /\ refreshes' = refreshes \ {r}
    /\ dev' = [op |-> "refreshDevices", target |-> t, sent |-> <<>>]
    /\ UNCHANGED deployments
    /\ UNCHANGED <<varsReload, varsConn, varsServer>>

\* A request of refreshDeploymentTargets is rejected: the catch block
RefreshFailed(r) ==
    /\ refreshes' = refreshes \ {r}
    /\ dev' = [op |-> "refreshFailed", target |-> "", sent |-> <<>>]
    /\ UNCHANGED <<deploymentTargets, deployments>>
    /\ UNCHANGED <<varsReload, varsConn, varsServer>>

\* The guard of deployToTarget on the status of the object found
Deployable(entry) == entry.status = "available"

\* deployToTarget(targetId) from its call to the build_for_deployment request
DeployCall(t) ==
    /\ LET entry == deploymentTargets[t]
       IN IF entry = NoEntry
          THEN /\ dev' = [op |-> "deployNotFound", target |-> t, sent |-> <<>>]
               /\ UNCHANGED <<deploymentTargets, deployments>>
          ELSE IF ~Deployable(entry)
          THEN /\ dev' = [op |-> "deployRefused", target |-> t, sent |-> <<>>]
               /\ UNCHANGED <<deploymentTargets, deployments>>
          ELSE /\ Cardinality(deployments) < MaxDeploys
               /\ deploymentTargets' = [deploymentTargets EXCEPT ![t].status = "deploying"]
               /\ deployments' = deployments \cup
                      {[obj |-> entry.obj, target |-> t, step |-> "build"]}
               /\ dev' = [op |-> "deployStart", target |-> t,
                          sent |-> <<"build_for_deployment">>]
    /\ UNCHANGED refreshes
    /\ UNCHANGED <<varsReload, varsConn, varsServer>>

\* target.status = s of a running call: the write goes to the object the call
\* took from the map, which the map may no longer hold
SetStatus(d, s) ==
    [x \in DeployTargets |->
        IF deploymentTargets[x].obj = d.obj
        THEN [deploymentTargets[x] EXCEPT !.status = s]
        ELSE deploymentTargets[x]]

\* The request a deployToTarget call awaits is answered (ok) or rejected: the call
\* sends deploy_to_target after the build, or ends and sets target.status
DeployReply(d, ok) ==
    /\ IF ok /\ d.step = "build"
       THEN /\ deployments' = (deployments \ {d}) \cup {[d EXCEPT !.step = "deploy"]}
            /\ dev' = [op |-> "deployStep", target |-> d.target,
                       sent |-> <<"deploy_to_target">>]
            /\ UNCHANGED deploymentTargets
       ELSE /\ deployments' = deployments \ {d}
            /\ deploymentTargets' = SetStatus(d, "available")
            /\ dev' = [op |-> IF ok THEN "deploySuccess" ELSE "deployFailure",
                       target |-> d.target, sent |-> <<>>]
    /\ UNCHANGED refreshes
    /\ UNCHANGED <<varsReload, varsConn, varsServer>>

----------------------------------------------------------------------------
\* ServerConnection: initial state (field initialisers and constructor)

NoObjects == [target |-> "", prompt |-> FALSE, ssh |-> "none", h |-> "none",
              ws |-> "none", promise |-> "none"]

InitConn ==
    /\ connected = FALSE
    /\ reconnectAttempts = 0
    /\ serverHost = ""
    /\ sshClient = NoConn
    /\ websocket = NoConn
    /\ conns = [k \in 1..MaxConns |-> NoObjects]
    /\ nConns = 0
    /\ reconnectTimers = 0
    /\ requests = <<>>
    /\ pendingRequests = <<>>
    /\ timedOut = {}
    /\ cev = [op |-> "init", id |-> 0, outcome |-> "", wrote |-> FALSE,
              type |-> "", data |-> TRUE, pushed |-> FALSE]

SetCev(op, id, outcome, wrote) ==
    cev' = IF "cev" \in track
           THEN [op |-> op, id |-> id, outcome |-> outcome, wrote |-> wrote,
                 type |-> "", data |-> TRUE, pushed |-> FALSE]
           ELSE cev

\* The record of a 'message' event; its type, whether it carries data and whether a
\* push handler was called are recorded as msgType
SetCevMessage(id, outcome, type, hasData, pushed) ==
    cev' = IF "cev" \in track
           THEN IF "msgType" \in track
                THEN [op |-> "message", id |-> id, outcome |-> outcome, wrote |-> FALSE,
                      type |-> type, data |-> hasData, pushed |-> pushed]
                ELSE [op |-> "message", id |-> id, outcome |-> outcome, wrote |-> FALSE,
                      type |-> "", data |-> TRUE, pushed |-> FALSE]
           ELSE cev

SetTimedOut(t) ==
    timedOut' = IF "timedOut" \in track THEN t ELSE timedOut

\* Function helpers
Without(f, S) == [x \in DOMAIN f \ S |-> f[x]]
With(f, x, v) == [y \in DOMAIN f \cup {x} |-> IF y = x THEN v ELSE f[y]]

\* The guard of sendMessage: this.websocket is set and its readyState is OPEN.
\* cs holds the sockets as the running handler has left them.
SocketOpenIn(cs) == websocket # NoConn /\ cs[websocket].ws = "OPEN"

SocketOpen == SocketOpenIn(conns)

\* isConnected()
isConnected == connected /\ SocketOpen

ClientCaller == [kind |-> "client", k |-> 0]
AuthCaller == [kind |-> "auth", k |-> 0]
SyncCaller(k) == [kind |-> "sync", k |-> k]

\* sendMessage(message), with the value Math.random() gives the id and whether
\* JSON.stringify / websocket.send throws. The result is the new pending state, the
\* way the promise stands, and whether the message was written to the socket.
sendMessage(cs, reqs, pend, id, caller, throws) ==
    IF ~SocketOpenIn(cs)
    THEN [requests |-> reqs, pending |-> pend, outcome |-> "notConnected", wrote |-> FALSE]
    ELSE IF throws
    THEN [requests |-> reqs,
          pending |-> Without(pend, {id}),
          outcome |-> "sendFailed", wrote |-> FALSE]
    ELSE LET slot == FreshId(DOMAIN reqs)
         IN [requests |-> With(reqs, slot, [id |-> id, timer |-> TRUE, caller |-> caller]),
             pending |-> With(pend, id, slot),
             outcome |-> "pending", wrote |-> TRUE]

\* The ids whose request timed out and that no later request was registered under,
\* after a sendMessage with result r
Registered(r, id) == IF r.outcome = "pending" THEN timedOut \ {id} ELSE timedOut

\* this.pendingRequests.delete(messageId) of the timeout callback (line 539)
TimeoutDelete_Keep(pend, id) == pend

TimeoutDelete(pend, id) == Without(pend, {id})

\* The ready handler of connect() from initializeProjectSync's return to resolve():
\* lines 375-379
FlowConnected(cs, k) ==
    [cs EXCEPT ![k].h = "done",
               ![k].promise = IF @ = "pending" THEN "resolved" ELSE @]

\* The connections whose ready handler awaits one of the requests of slots
SyncWaiters(reqs, slots) ==
    {reqs[s].caller.k : s \in {x \in slots : reqs[x].caller.kind = "sync"}}

RECURSIVE ConnectAll(_, _)
ConnectAll(cs, ks) ==
    IF ks = {} THEN cs
    ELSE LET k == CHOOSE x \in ks : TRUE
         IN ConnectAll(FlowConnected(cs, k), ks \ {k})

\* The requests of slots are settled (resolved or rejected): their promises leave
\* the model, and a ready handler that awaited one (syncProjectToServer catches a
\* rejection) runs on to connected = true. flag is the value of this.connected the
\* handler leaves before these continuations run.
Settle(slots, flag) ==
    LET ks == SyncWaiters(requests, slots)
    IN /\ requests' = Without(requests, slots)
       /\ conns' = ConnectAll(conns, ks)
       /\ connected' = IF ks # {} THEN TRUE ELSE flag
       /\ reconnectAttempts' = IF ks # {} THEN 0 ELSE reconnectAttempts

\* handleServerMessage, the branch of a pending id (lines 507-518)
ResolveBranch(id) ==
    /\ pendingRequests' = Without(pendingRequests, {id})
    /\ Settle({pendingRequests[id]} \cap DOMAIN requests, connected)

\* handleConnectionError's reconnect (lines 660-673)
ScheduleReconnect_Unbounded == TRUE

ScheduleReconnect == reconnectAttempts < maxReconnectAttempts

----------------------------------------------------------------------------
\* ServerConnection: actions

\* connect(host, port, username) from its call to the password prompt
\* The objects of connection k can take no further step: no prompt is open, its
\* Client never connects or has closed, its WebSocket does not exist or has closed,
\* and its ready handler is not suspended at an await that can still resume. The
\* Client of this.sshClient counts because connect() replaces it.
Dead(k) ==
    /\ ~conns[k].prompt
    /\ conns[k].ssh \in {"none", "new", "closed"}
    /\ conns[k].ws \in {"none", "CLOSED"}
    /\ \/ conns[k].h \in {"none", "done", "failed"}
       \/ conns[k].h = "ws" /\ conns[k].ws = "CLOSED"
    /\ k # websocket

connect(target) ==
    /\ nConns < MaxConnects
    /\ \E k \in 1..MaxConns : Dead(k)
    /\ nConns' = nConns + 1
    /\ LET k == CHOOSE j \in 1..MaxConns : Dead(j) /\ \A i \in 1..(j - 1) : ~Dead(i)
       IN /\ sshClient' = k
          /\ conns' = [conns EXCEPT ![k] =
                          [target |-> target, prompt |-> TRUE, ssh |-> "new", h |-> "none",
                           ws |-> "none", promise |-> "pending"]]
    /\ serverHost' = target

\* A caller of the extension connects
Connect(target) ==
    /\ connect(target)
    /\ SetCev("connect", 0, "", FALSE)
    /\ UNCHANGED <<connected, reconnectAttempts, websocket, reconnectTimers, requests,
                   pendingRequests, timedOut>>
    /\ UNCHANGED <<varsReload, varsServer, varsDeploy>>

\* The reconnect timer of handleConnectionError fires: connect() with the stored target
ReconnectFire ==
    /\ reconnectTimers > 0
    /\ reconnectTimers' = reconnectTimers - 1
    /\ connect(serverHost)
    /\ SetCev("reconnect", 0, "", FALSE)
    /\ UNCHANGED <<connected, reconnectAttempts, websocket, requests, pendingRequests,
                   timedOut>>
    /\ UNCHANGED <<varsReload, varsServer, varsDeploy>>

\* The password prompt of connection k is answered: this.sshClient!.connect(...),
\* or reject when no password is given
Password(k, given) ==
    /\ conns[k].prompt
    /\ IF given
       THEN conns' = [j \in DOMAIN conns |->
                        IF j = k /\ j = sshClient
                        THEN [conns[j] EXCEPT !.prompt = FALSE,
                                              !.ssh = IF @ = "new" THEN "connecting" ELSE @]
                        ELSE IF j = k THEN [conns[j] EXCEPT !.prompt = FALSE]
                        ELSE IF j = sshClient
                        THEN [conns[j] EXCEPT !.ssh = IF @ = "new" THEN "connecting" ELSE @]
                        ELSE conns[j]]
       ELSE conns' = [conns EXCEPT ![k].prompt = FALSE,
                                   ![k].promise = IF @ = "pending" THEN "rejected" ELSE @]
    /\ SetCev("password", 0, "", FALSE)
    /\ UNCHANGED <<connected, reconnectAttempts, serverHost, sshClient, websocket, nConns,
                   reconnectTimers, requests, pendingRequests, timedOut>>
    /\ UNCHANGED <<varsReload, varsServer, varsDeploy>>

\* 'ready' of the Client of connection k: the handler runs to await setupSSHTunnel(),
\* which rejects at once when this.sshClient is null
SshReady(k) ==
    /\ conns[k].ssh = "connecting"
    /\ conns' = [conns EXCEPT ![k].ssh = "ready",
                              ![k].h = IF sshClient = NoConn THEN "failed" ELSE "tunnel",
                              ![k].promise = IF sshClient = NoConn /\ @ = "pending"
                                             THEN "rejected" ELSE @]
    /\ SetCev("sshReady", 0, "", FALSE)
    /\ UNCHANGED <<connected, reconnectAttempts, serverHost, sshClient, websocket, nConns,
                   reconnectTimers, requests, pendingRequests, timedOut>>
    /\ UNCHANGED <<varsReload, varsServer, varsDeploy>>

\* The forwardOut callback of connection k: on success connectWebSocket() creates
\* the socket and awaits its 'open'
TunnelDone(k, ok) ==
    /\ conns[k].h = "tunnel"
    /\ IF ok
       THEN /\ conns' = [conns EXCEPT ![k].h = "ws", ![k].ws = "CONNECTING"]
            /\ websocket' = k
       ELSE /\ conns' = [conns EXCEPT ![k].h = "failed",
                                      ![k].promise = IF @ = "pending" THEN "rejected" ELSE @]
            /\ UNCHANGED websocket
    /\ SetCev("tunnel", 0, "", FALSE)
    /\ UNCHANGED <<connected, reconnectAttempts, serverHost, sshClient, nConns,
                   reconnectTimers, requests, pendingRequests, timedOut>>
    /\ UNCHANGED <<varsReload, varsServer, varsDeploy>>

\* sendMessage blocks in the model while every slot is taken
SlotFree == Cardinality(DOMAIN requests) < MaxPending

\* 'open' of the WebSocket of connection k: authenticate is sent (its promise is
\* dropped) and connectWebSocket resolves; the ready handler runs on into
\* initializeProjectSync, to connected = true when there is no workspace folder
\* and to the await of findFiles / readFile otherwise
WsOpen(k, id, hasWorkspace) ==
    /\ conns[k].ws = "CONNECTING"
    /\ LET cs == [conns EXCEPT ![k].ws = "OPEN"]
           r == sendMessage(cs, requests, pendingRequests, id, AuthCaller, FALSE)
           waits == conns[k].h = "ws"
       IN /\ SocketOpenIn(cs) => SlotFree
          /\ requests' = r.requests
          /\ pendingRequests' = r.pending
          /\ SetCev("wsOpen", id, r.outcome, r.wrote)
          /\ SetTimedOut(Registered(r, id))
          /\ IF waits /\ ~hasWorkspace
             THEN /\ conns' = FlowConnected(cs, k)
                  /\ connected' = TRUE
                  /\ reconnectAttempts' = 0
             ELSE /\ conns' = IF waits THEN [cs EXCEPT ![k].h = "files"] ELSE cs
                  /\ UNCHANGED <<connected, reconnectAttempts>>
    /\ UNCHANGED <<serverHost, sshClient, websocket, nConns, reconnectTimers>>
    /\ UNCHANGED <<varsReload, varsServer, varsDeploy>>

\* syncProjectToServer has read the files and sends sync_project; a rejection is
\* caught, so without a pending request the handler runs on to connected = true
FilesRead(k, id, throws) ==
    /\ conns[k].h = "files"
    /\ LET r == sendMessage(conns, requests, pendingRequests, id, SyncCaller(k), throws)
       IN /\ SocketOpen => SlotFree
          /\ requests' = r.requests
          /\ pendingRequests' = r.pending
          /\ SetCev("syncProject", id, r.outcome, r.wrote)
          /\ SetTimedOut(Registered(r, id))
          /\ IF r.outcome = "pending"
             THEN /\ conns' = [conns EXCEPT ![k].h = "sync"]
                  /\ UNCHANGED <<connected, reconnectAttempts>>
             ELSE /\ conns' = FlowConnected(conns, k)
                  /\ connected' = TRUE
                  /\ reconnectAttempts' = 0
    /\ UNCHANGED <<serverHost, sshClient, websocket, nConns, reconnectTimers>>
    /\ UNCHANGED <<varsReload, varsServer, varsDeploy>>

\* A caller (a command, the hot-reload service) sends a request
ClientSend(id, throws) ==
    /\ SocketOpen => SlotFree
    /\ LET r == sendMessage(conns, requests, pendingRequests, id, ClientCaller, throws)
       IN /\ requests' = r.requests
          /\ pendingRequests' = r.pending
          /\ SetCev("send", id, r.outcome, r.wrote)
          /\ SetTimedOut(Registered(r, id))
    /\ UNCHANGED <<connected, reconnectAttempts, serverHost, sshClient, websocket, conns,
                   nConns, reconnectTimers>>
    /\ UNCHANGED <<varsReload, varsServer, varsDeploy>>

\* The message types setupMessageHandlers registers a push handler for
PushTypes == {"simulator_frame", "build_output", "device_list", "error", "file_changed"}

\* Lines 520-525 of handleServerMessage: the handler registered for the type is
\* called; a type without a handler is logged and dropped
Dispatched_Never(type) == FALSE

Dispatched(type) == type \in PushTypes

\* Lines 512-516 of handleServerMessage
MessageOutcome(type) == IF type = "error" THEN "rejected" ELSE "resolved"

\* 'message' of the WebSocket of connection k: handleServerMessage. id 0 is a
\* message without id; hasData tells whether the message has a data member. A
\* message that matches a pending request settles it and returns; for an 'error'
\* message without data, message.data.message throws after the timer was cleared
\* and the entry deleted, and the 'message' listener catches the TypeError: the
\* promise is left unsettled with no timer. A message that matches no pending
\* request goes to the push handler of its type or is discarded.
ServerMessage(k, id, type, hasData) ==
    /\ conns[k].ws = "OPEN"
    /\ IF id # 0 /\ id \in DOMAIN pendingRequests
       THEN IF type = "error" /\ ~hasData
            THEN /\ pendingRequests' = Without(pendingRequests, {id})
                 /\ requests' = [s \in DOMAIN requests |->
                                    IF s = pendingRequests[id]
                                    THEN [requests[s] EXCEPT !.timer = FALSE]
                                    ELSE requests[s]]
                 /\ UNCHANGED <<connected, reconnectAttempts, conns>>
                 /\ SetCevMessage(id, "threw", type, hasData, FALSE)
            ELSE /\ ResolveBranch(id)
                 /\ SetCevMessage(id, MessageOutcome(type), type, hasData, FALSE)
       ELSE /\ SetCevMessage(id, "unmatched", type, hasData, Dispatched(type))
            /\ UNCHANGED <<connected, reconnectAttempts, conns, requests, pendingRequests>>
    /\ UNCHANGED <<serverHost, sshClient, websocket, nConns, reconnectTimers, timedOut>>
    /\ UNCHANGED <<varsReload, varsServer, varsDeploy>>

\* The 30 s timer of the request in slot s fires (lines 538-541)
RequestTimeout(s) ==
    /\ s \in DOMAIN requests
    /\ requests[s].timer
    /\ pendingRequests' = TimeoutDelete(pendingRequests, requests[s].id)
    /\ Settle({s}, connected)
    /\ SetTimedOut(timedOut \cup {requests[s].id})
    /\ SetCev("timeout", requests[s].id, "rejected", FALSE)
    /\ UNCHANGED <<serverHost, sshClient, websocket, nConns, reconnectTimers>>
    /\ UNCHANGED <<varsReload, varsServer, varsDeploy>>

\* 'error' of the Client of connection k: handleConnectionError(), reject(err)
SshError(k) ==
    /\ conns[k].ssh \in {"connecting", "ready"}
    /\ conns' = [conns EXCEPT ![k].ssh = "closing",
                              ![k].promise = IF @ = "pending" THEN "rejected" ELSE @]
    /\ connected' = FALSE
    /\ IF ScheduleReconnect
       THEN /\ reconnectAttempts' = reconnectAttempts + 1
            /\ reconnectTimers' = reconnectTimers + 1
       ELSE UNCHANGED <<reconnectAttempts, reconnectTimers>>
    /\ SetCev("sshError", 0, "", FALSE)
    /\ UNCHANGED <<serverHost, sshClient, websocket, nConns, requests, pendingRequests,
                   timedOut>>
    /\ UNCHANGED <<varsReload, varsServer, varsDeploy>>

\* handleDisconnection() after the socket or client state cs
handleDisconnection(cs) ==
    LET slots == {pendingRequests[i] : i \in DOMAIN pendingRequests} \cap DOMAIN requests
        ks == SyncWaiters(requests, slots)
    IN /\ pendingRequests' = <<>>
       /\ requests' = Without(requests, slots)
       /\ conns' = ConnectAll(cs, ks)
       /\ connected' = (ks # {})
       /\ reconnectAttempts' = IF ks # {} THEN 0 ELSE reconnectAttempts

\* 'close' of the Client of connection k
SshClose(k) ==
    /\ conns[k].ssh \in {"connecting", "ready", "closing"}
    /\ handleDisconnection([conns EXCEPT ![k].ssh = "closed"])
    /\ SetCev("sshClose", 0, "", FALSE)
    /\ UNCHANGED <<serverHost, sshClient, websocket, nConns, reconnectTimers, timedOut>>
    /\ UNCHANGED <<varsReload, varsServer, varsDeploy>>

\* 'error' of the WebSocket of connection k: connectWebSocket rejects if it is
\* still awaited
WsError(k) ==
    /\ conns[k].ws \in {"CONNECTING", "OPEN"}
    /\ conns' = [conns EXCEPT ![k].ws = "CLOSING",
                              ![k].h = IF @ = "ws" THEN "failed" ELSE @,
                              ![k].promise = IF conns[k].h = "ws" /\ @ = "pending"
                                             THEN "rejected" ELSE @]
    /\ SetCev("wsError", 0, "", FALSE)
    /\ UNCHANGED <<connected, reconnectAttempts, serverHost, sshClient, websocket, nConns,
                   reconnectTimers, requests, pendingRequests, timedOut>>
    /\ UNCHANGED <<varsReload, varsServer, varsDeploy>>

\* 'close' of the WebSocket of connection k
WsClose(k) ==
    /\ conns[k].ws \in {"CONNECTING", "OPEN", "CLOSING"}
    /\ handleDisconnection([conns EXCEPT ![k].ws = "CLOSED"])
    /\ SetCev("wsClose", 0, "", FALSE)
    /\ UNCHANGED <<serverHost, sshClient, websocket, nConns, reconnectTimers, timedOut>>
    /\ UNCHANGED <<varsReload, varsServer, varsDeploy>>

\* disconnect()
Disconnect ==
    /\ conns' = [k \in DOMAIN conns |->
                   [conns[k] EXCEPT
                      !.ws = IF k = websocket /\ @ \in {"CONNECTING", "OPEN"}
                             THEN "CLOSING" ELSE @,
                      !.ssh = IF k = sshClient /\ @ \in {"connecting", "ready"}
                              THEN "closing" ELSE @]]
    /\ websocket' = NoConn
    /\ sshClient' = NoConn
    /\ connected' = FALSE
    /\ SetCev("disconnect", 0, "", FALSE)
    /\ UNCHANGED <<reconnectAttempts, serverHost, nConns, reconnectTimers, requests,
                   pendingRequests, timedOut>>
    /\ UNCHANGED <<varsReload, varsServer, varsDeploy>>

----------------------------------------------------------------------------
\* iOSServer: the 'message', 'close' and child-process events of one client socket

SrvTypes == {"authenticate", "sync_file", "build_project", "get_devices",
             "swiftui_preview_update"}
SessionTypes == {"sync_file", "build_project"}     \* handlers that need a session
SpawnTypes == {"build_project", "get_devices"}     \* handlers that await a child process
KnownTypes == {"authenticate", "sync_file", "build_project", "get_devices"}

\* The default branch of the switch: throw new Error("Unknown message type")
UnknownType(type) == type \notin KnownTypes

InitServer ==
    /\ srvSocket = "OPEN"
    /\ srvSessions = 0
    /\ srvHandlers = {}
    /\ buildProcess = 0
    /\ srvSent = <<>>
    /\ srvRequests = <<>>

\* sendMessage(ws, type, data, id): written only while the socket is open. message
\* tells whether data is { message }; req is the request whose handler sent it.
SrvSendMessage(sent, type, message, id, req) ==
    IF srvSocket = "OPEN"
    THEN Append(sent, [type |-> type, id |-> id, message |-> message, req |-> req])
    ELSE sent

\* The type sendResponse gives the reply
ResponseType_Bare(type) == type

ResponseType(type) == type \o "_response"

sendResponse(sent, type, id, req) == SrvSendMessage(sent, ResponseType(type), FALSE, id, req)

sendError(sent, id, req) == SrvSendMessage(sent, "error", TRUE, id, req)

\* The end of handleClientMessage for request n: sendResponse after the handler
\* returned, sendError from the catch block after it threw
SrvReply(n, type, id, ok) ==
    /\ srvSent' = IF ok THEN sendResponse(srvSent, type, id, n) ELSE sendError(srvSent, id, n)
    /\ srvRequests' = [i \in 1..(IF n > Len(srvRequests) THEN n ELSE Len(srvRequests)) |->
                          IF i = n
                          THEN [type |-> type, id |-> id,
                                state |-> IF ok THEN "ok" ELSE "threw",
                                open |-> srvSocket = "OPEN"]
                          ELSE srvRequests[i]]

\* 'message' with a text that parses: handleClientMessage runs to the await of its
\* handler. The handlers that await no child process are over before any other
\* event is handled, and so is the reply. throws: the handler throws on its data
\* or on the file system. id 0 is a message without id.
SrvReceive(type, id, throws) ==
    /\ srvSocket = "OPEN"
    /\ Len(srvRequests) < MaxRequests
    /\ LET n == Len(srvRequests) + 1
           fails == \/ UnknownType(type)
                    \/ type \in SessionTypes /\ srvSessions = 0
                    \/ type \notin SpawnTypes /\ throws
       IN IF type \in SpawnTypes /\ ~fails
          THEN /\ srvRequests' = Append(srvRequests, [type |-> type, id |-> id,
                                                      state |-> "running", open |-> TRUE])
               /\ IF type = "build_project"
                  THEN /\ srvHandlers' =
                            {IF h.n = buildProcess THEN [h EXCEPT !.killed = TRUE] ELSE h :
                                h \in srvHandlers}
                            \cup {[n |-> n, type |-> type, id |-> id, killed |-> FALSE,
                                   output |-> FALSE]}
                       /\ buildProcess' = n
                  ELSE /\ srvHandlers' = srvHandlers \cup
                             {[n |-> n, type |-> type, id |-> id, killed |-> FALSE,
                               output |-> TRUE]}
                       /\ UNCHANGED buildProcess
               /\ UNCHANGED <<srvSent, srvSessions>>
          ELSE /\ SrvReply(n, type, id, ~fails)
               /\ srvSessions' = IF type = "authenticate" /\ ~fails
                                 THEN srvSessions + 1 ELSE srvSessions
               /\ UNCHANGED <<srvHandlers, buildProcess>>
    /\ UNCHANGED srvSocket
    /\ UNCHANGED <<varsReload, varsConn, varsDeploy>>

\* 'message' with a text that does not parse: sendError without id
SrvReceiveInvalid ==
    /\ srvSocket = "OPEN"
    /\ Len(srvRequests) < MaxRequests
    /\ SrvReply(Len(srvRequests) + 1, "<invalid>", 0, FALSE)
    /\ UNCHANGED <<srvSocket, srvSessions, srvHandlers, buildProcess>>
    /\ UNCHANGED <<varsReload, varsConn, varsDeploy>>

\* The build process of handler h writes output: a build_output message without id
SrvBuildOutput(h) ==
    /\ h \in srvHandlers
    /\ h.type = "build_project"
    /\ ~h.output
    /\ srvHandlers' = (srvHandlers \ {h}) \cup {[h EXCEPT !.output = TRUE]}
    /\ srvSent' = SrvSendMessage(srvSent, "build_output", FALSE, 0, 0)
    /\ UNCHANGED <<srvSocket, srvSessions, buildProcess, srvRequests>>
    /\ UNCHANGED <<varsReload, varsConn, varsDeploy>>

\* 'close' of the child process of handler h, with exit code 0 or not (a process
\* that was killed does not exit with 0): the handler resolves or rejects and
\* handleClientMessage runs to its end
SrvHandlerDone(h, ok) ==
    /\ h \in srvHandlers
    /\ h.killed => ~ok
    /\ srvHandlers' = srvHandlers \ {h}
    /\ SrvReply(h.n, h.type, h.id, ok)
    /\ UNCHANGED <<srvSocket, srvSessions, buildProcess>>
    /\ UNCHANGED <<varsReload, varsConn, varsDeploy>>

\* 'close' of the socket: removeClient deletes the first session of ws
SrvClose ==
    /\ srvSocket = "OPEN"
    /\ srvSocket' = "CLOSED"
    /\ srvSessions' = IF srvSessions > 0 THEN srvSessions - 1 ELSE 0
    /\ UNCHANGED <<srvHandlers, buildProcess, srvSent, srvRequests>>
    /\ UNCHANGED <<varsReload, varsConn, varsDeploy>>

NextServer ==
    \/ \E type \in SrvTypes, id \in Ids \cup {0}, throws \in BOOLEAN :
          SrvReceive(type, id, throws)
    \/ SrvReceiveInvalid
    \/ \E h \in srvHandlers : SrvBuildOutput(h)
    \/ \E h \in srvHandlers, ok \in BOOLEAN : SrvHandlerDone(h, ok)
    \/ SrvClose

InitSrv == InitReload /\ InitConn /\ InitServer /\ InitDeploy /\ track = {}

SpecServer == InitSrv /\ [][NextServer]_vars

----------------------------------------------------------------------------
\* DeploymentService: the target map, refreshDeploymentTargets and deployToTarget

NextDeploy ==
    \/ RefreshStart
    \/ \E r \in refreshes, t \in SimTargets \cup {""}, up \in BOOLEAN :
          RefreshSimulators(r, t, up)
    \/ \E r \in refreshes, t \in DevTargets \cup {""}, up \in BOOLEAN :
          RefreshDevices(r, t, up)
    \/ \E r \in refreshes : RefreshFailed(r)
    \/ \E t \in DeployTargets : DeployCall(t)
    \/ \E d \in deployments, ok \in BOOLEAN : DeployReply(d, ok)
    \/ SrvConnectionChange

InitDeployment == InitReload /\ InitConn /\ InitServer /\ InitDeploy /\ track = {}

SpecDeploy == InitDeployment /\ [][NextDeploy]_vars

----------------------------------------------------------------------------
\* Specifications of the session layer

OneTarget == {"mac-a"}

\* Requests over a session: sends, responses, timeouts, and the socket closing or
\* being dropped by disconnect(); no workspace folder is open and connect() is
\* called MaxConns times at most
NextRequests ==
    \/ \E t \in OneTarget : nConns < MaxConns /\ Connect(t)
    \/ \E k \in 1..MaxConns : Password(k, TRUE)
    \/ \E k \in 1..MaxConns : SshReady(k)
    \/ \E k \in 1..MaxConns : TunnelDone(k, TRUE)
    \/ \E k \in 1..MaxConns, id \in Ids : WsOpen(k, id, FALSE)
    \/ \E id \in Ids, throws \in BOOLEAN : ClientSend(id, throws)
    \/ \E k \in 1..MaxConns, id \in Ids \cup {0}, type \in {"response", "error"} :
          ServerMessage(k, id, type, TRUE)
    \/ \E s \in DOMAIN requests : RequestTimeout(s)
    \/ \E k \in 1..MaxConns : WsClose(k)
    \/ Disconnect

InitRequests == InitReload /\ InitConn /\ InitServer /\ InitDeploy /\ track = {"cev", "timedOut"}

SpecRequests == InitRequests /\ [][NextRequests]_vars

\* Messages of every shape arriving on one session: responses, error messages with
\* and without data, and messages of a push type, with or without the id of a
\* pending request; no workspace folder is open
MessageTypes == {"build_project_response", "error", "file_changed"}

NextMessages ==
    \/ \E t \in OneTarget : nConns = 0 /\ Connect(t)
    \/ \E k \in 1..MaxConns : Password(k, TRUE)
    \/ \E k \in 1..MaxConns : SshReady(k)
    \/ \E k \in 1..MaxConns : TunnelDone(k, TRUE)
    \/ \E k \in 1..MaxConns, id \in Ids : WsOpen(k, id, FALSE)
    \/ \E id \in Ids : ClientSend(id, FALSE)
    \/ \E k \in 1..MaxConns, id \in Ids \cup {0}, type \in MessageTypes,
          hasData \in BOOLEAN : ServerMessage(k, id, type, hasData)
    \/ \E s \in DOMAIN requests : RequestTimeout(s)
    \/ \E k \in 1..MaxConns : WsClose(k)

InitMessages == InitReload /\ InitConn /\ InitServer /\ InitDeploy /\ track = {"cev", "msgType"}

SpecMessages == InitMessages /\ [][NextMessages]_vars

\* The same session with the timers of the run time: the 30 s timer of a request
\* fires unless it is cleared first
SpecMessagesLive ==
    SpecMessages /\ \A s \in 1..MaxPending : WF_vars(RequestTimeout(s))

\* The transport of a session is lost in each of the ways the client detects; no
\* workspace folder is open and connect() runs MaxConns times at most
NextLoss ==
    \/ \E t \in OneTarget : nConns < MaxConns /\ Connect(t)
    \/ nConns < MaxConns /\ ReconnectFire
    \/ \E k \in 1..MaxConns : Password(k, TRUE)
    \/ \E k \in 1..MaxConns : SshReady(k)
    \/ \E k \in 1..MaxConns : TunnelDone(k, TRUE)
    \/ \E k \in 1..MaxConns, id \in Ids : WsOpen(k, id, FALSE)
    \/ \E id \in Ids : ClientSend(id, FALSE)
    \/ \E k \in 1..MaxConns : SshError(k)
    \/ \E k \in 1..MaxConns : SshClose(k)
    \/ \E k \in 1..MaxConns : WsError(k)
    \/ \E k \in 1..MaxConns : WsClose(k)

InitLoss == InitReload /\ InitConn /\ InitServer /\ InitDeploy /\ track = {"cev"}

SpecLoss == InitLoss /\ [][NextLoss]_vars

\* Connection attempts that fail and are retried: every connect() after the first
\* comes from a reconnect timer; no workspace folder is open
NextReconnect ==
    \/ \E t \in OneTarget : nConns = 0 /\ Connect(t)
    \/ ReconnectFire
    \/ \E k \in 1..MaxConns : Password(k, TRUE)
    \/ \E k \in 1..MaxConns : SshReady(k)
    \/ \E k \in 1..MaxConns : TunnelDone(k, TRUE)
    \/ \E k \in 1..MaxConns, id \in Ids : WsOpen(k, id, FALSE)
    \/ \E k \in 1..MaxConns : SshError(k)
    \/ \E k \in 1..MaxConns : SshClose(k)
    \/ \E k \in 1..MaxConns : WsClose(k)

InitReconnect == InitReload /\ InitConn /\ InitServer /\ InitDeploy /\ track = {"cev"}

SpecReconnect == InitReconnect /\ [][NextReconnect]_vars

\* disconnect() is called at any point of a session that connects, loses its
\* transport and reconnects; connect() runs MaxConns times at most
NextDisconnect ==
    \/ \E t \in OneTarget : nConns < MaxConns /\ Connect(t)
    \/ nConns < MaxConns /\ ReconnectFire
    \/ \E k \in 1..MaxConns : Password(k, TRUE)
    \/ \E k \in 1..MaxConns : SshReady(k)
    \/ \E k \in 1..MaxConns : TunnelDone(k, TRUE)
    \/ \E k \in 1..MaxConns, id \in Ids : WsOpen(k, id, FALSE)
    \/ \E k \in 1..MaxConns : SshError(k)
    \/ \E k \in 1..MaxConns : SshClose(k)
    \/ \E k \in 1..MaxConns : WsClose(k)
    \/ Disconnect

InitDisconnect == InitReload /\ InitConn /\ InitServer /\ InitDeploy /\ track = {"cev"}

SpecDisconnect == InitDisconnect /\ [][NextDisconnect]_vars

----------------------------------------------------------------------------
\* Specifications of the reload service. Each one records the history variables
\* its properties read and draws the file events from the set its cases need.

OneContent == {"x += 1"}

\* Triggers against a running cycle: every trigger, events on two paths
NextMutex ==
    \/ \E p \in {"Model.swift"}, c \in OneContent \cup {Absent} : FsEdit(p, c, FALSE)
    \/ \E h \in BagToSet(handlers) : ReadServed(h)
    \/ \E h \in BagToSet(handlers) : ReadComplete(h)
    \/ ConfigChange
    \/ \E t \in timers : TimerFire(t)
    \/ ForceReload
    \/ \E c \in cycles : RequestResolved(c)
    \/ \E c \in cycles : RequestRejected(c)
    \/ Toggle
    \/ SrvConnectionChange

InitMutex == InitReload /\ InitConn /\ InitServer /\ InitDeploy /\ track = {"ev"}

SpecMutex == InitMutex /\ [][NextMutex]_vars

\* Records arriving around cycles: events on two paths, cycles that succeed or fail
NextBatch ==
    \/ \E p \in PlainPaths, c \in OneContent \cup {Absent} : FsEdit(p, c, FALSE)
    \/ \E h \in BagToSet(handlers) : ReadServed(h)
    \/ \E h \in BagToSet(handlers) : ReadComplete(h)
    \/ \E t \in timers : TimerFire(t)
    \/ \E c \in cycles : RequestResolved(c)
    \/ \E c \in cycles : RequestRejected(c)

InitBatch == InitReload /\ InitConn /\ InitServer /\ InitDeploy /\ track = {"recorded", "burst"}

SpecBatch == InitBatch /\ [][NextBatch]_vars

\* Events of one file whose handlers overlap: edits, auto-save of a dirty document,
\* deletion, and the cycles that consume the queue
NextRace ==
    \/ \E c \in OneContent \cup {Absent}, dirty \in BOOLEAN : FsEdit("Model.swift", c, dirty)
    \/ \E h \in BagToSet(handlers), b \in OneContent : SaveDone(h, b)
    \/ \E h \in BagToSet(handlers) : ReadServed(h)
    \/ \E h \in BagToSet(handlers) : ReadComplete(h)
    \/ \E t \in timers : TimerFire(t)
    \/ \E c \in cycles : RequestResolved(c)
    \/ \E c \in cycles : RequestRejected(c)

InitRace == InitReload /\ InitConn /\ InitServer /\ InitDeploy /\ track = {"lastEvent"}

SpecRace == InitRace /\ [][NextRace]_vars

\* One edit of the view file, whose content then carries a view marker, with preview
\* mode on; every request is answered
ViewContents == {"@State var n", "var body: some View {"}

InitPreview ==
    /\ InitConn
    /\ InitServer
    /\ InitDeploy
    /\ track = {"sentLog"}
    /\ \E incremental \in BOOLEAN, autoSave \in BOOLEAN :
          config = [enabled |-> TRUE, swiftUIPreviewMode |-> TRUE,
                    incrementalCompilation |-> incremental, autoSave |-> autoSave]
    /\ disk = [p \in Paths |-> "x += 1"]
    /\ debounceTimer = NoTimer
    /\ timers = {}
    /\ changeQueue = <<>>
    /\ buildCache = [p \in Paths |-> Absent]
    /\ isReloading = FALSE
    /\ cycles = {}
    /\ handlers = EmptyBag
    /\ srvConnected = TRUE
    /\ reloadHistory = <<>>
    /\ lastEvent = [p \in Paths |-> Absent]
    /\ burst = [paths |-> {}, ok |-> TRUE]
    /\ ev = [op |-> "init", sent |-> <<>>]

NextPreview ==
    \/ \E c \in ViewContents :
          disk["LoginView.swift"] = "x += 1" /\ FsEdit("LoginView.swift", c, FALSE)
    \/ \E h \in BagToSet(handlers) : ReadServed(h)
    \/ \E h \in BagToSet(handlers) : ReadComplete(h)
    \/ \E h \in BagToSet(handlers) : UiReadServed(h)
    \/ \E h \in BagToSet(handlers) : UiReadComplete(h, FALSE)
    \/ \E h \in BagToSet(handlers) : UiSendResolved(h)
    \/ \E t \in timers : TimerFire(t)
    \/ \E c \in cycles : RequestResolved(c)

SpecPreview == InitPreview /\ [][NextPreview]_vars

\* Batches for analyzeChanges and getReloadStrategy: up to two files of interest in
\* either order, each with any of the contents, before or after a run of helper
\* files whose content has no marker. The run lengths put the batch on both sides
\* of the limits of 3 and 10 files and of the file counts (10 and 15) at which the
\* cost estimate reaches its ceilings.
CorePaths == {"Package.swift", "LoginView.swift", "Model.swift"}
HelperPaths == <<"Helper1.swift", "Helper2.swift", "Helper3.swift", "Helper4.swift",
                 "Helper5.swift", "Helper6.swift", "Helper7.swift", "Helper8.swift",
                 "Helper9.swift", "Helper10.swift", "Helper11.swift", "Helper12.swift",
                 "Helper13.swift", "Helper14.swift", "Helper15.swift", "Helper16.swift">>
AnalysisPaths == CorePaths \cup SeqToSet(HelperPaths)
AnalysisContents == {"x += 1", "@State var n", "struct S {}", "@main"}
HelperRuns == {0, 2, 9, Len(HelperPaths)}

CoreRecords == [path : CorePaths, content : AnalysisContents]

CoreQueues ==
    {<<>>} \cup {<<a>> : a \in CoreRecords}
           \cup {<<r[1], r[2]>> : r \in {x \in CoreRecords \X CoreRecords :
                                             x[1].path # x[2].path}}

HelperRun(n) == [i \in 1..n |-> [path |-> HelperPaths[i], content |-> "x += 1"]]

\* The service after the events of a batch were recorded and the last of them armed
\* the debounce timer; the mode flags are what loadConfiguration read
InitAnalysis ==
    /\ InitConn
    /\ InitServer
    /\ InitDeploy
    /\ track = {"analysis"}
    /\ \E preview \in BOOLEAN, incremental \in BOOLEAN :
          config = [enabled |-> TRUE, swiftUIPreviewMode |-> preview,
                    incrementalCompilation |-> incremental, autoSave |-> TRUE]
    /\ \E core \in CoreQueues, n \in HelperRuns, front \in BOOLEAN :
          changeQueue = IF front THEN HelperRun(n) \o core ELSE core \o HelperRun(n)
    /\ disk = [p \in AnalysisPaths |->
                 IF QueueHas(changeQueue, p) THEN QueueGet(changeQueue, p) ELSE "x += 1"]
    /\ debounceTimer = 1
    /\ timers = {[id |-> 1, force |-> FALSE, wanted |-> FALSE]}
    /\ buildCache = [p \in AnalysisPaths |-> Absent]
    /\ isReloading = FALSE
    /\ cycles = {}
    /\ handlers = EmptyBag
    /\ srvConnected = TRUE
    /\ reloadHistory = <<>>
    /\ lastEvent = [p \in Paths |-> Absent]
    /\ burst = [paths |-> {}, ok |-> TRUE]
    /\ ev = [op |-> "init", sent |-> <<>>]

NextAnalysis ==
    \/ \E t \in timers : TimerFire(t)
    \/ ForceReload
    \/ \E c \in cycles : RequestResolved(c)
    \/ \E c \in cycles : RequestRejected(c)

SpecAnalysis == InitAnalysis /\ [][NextAnalysis]_vars

\* Cycles and their results: edits of one file, debounce timers and forceReload,
\* requests that are answered or fail. The service has run InitialResults forced
\* reloads that succeeded, so that the history reaches its capacity.
InitHistory ==
    /\ InitConn
    /\ InitServer
    /\ InitDeploy
    /\ track = {"ev", "history", "batch"}
    /\ config = [enabled |-> TRUE, swiftUIPreviewMode |-> TRUE,
                 incrementalCompilation |-> TRUE, autoSave |-> TRUE]
    /\ reloadHistory = [i \in 1..InitialResults |->
                          [success |-> TRUE, changeType |-> "Full Rebuild",
                           errors |-> <<>>, seq |-> i]]
    /\ debounceTimer = NoTimer
    /\ timers = {}
    /\ changeQueue = <<>>
    /\ buildCache = [p \in Paths |-> Absent]
    /\ isReloading = FALSE
    /\ cycles = {}
    /\ handlers = EmptyBag
    /\ disk = [p \in Paths |-> "x += 1"]
    /\ srvConnected = TRUE
    /\ lastEvent = [p \in Paths |-> Absent]
    /\ burst = [paths |-> {}, ok |-> TRUE]
    /\ ev = [op |-> "init", sent |-> <<>>]

\* A trigger can still start a cycle within the bound on the results
ResultsLeft == Appended + Cardinality(cycles) < MaxResults

NextHistory ==
    \/ \E c \in OneContent : FsEdit("Model.swift", c, FALSE)
    \/ \E h \in BagToSet(handlers) : ReadServed(h)
    \/ \E h \in BagToSet(handlers) : ReadComplete(h)
    \/ \E t \in timers : ResultsLeft /\ TimerFire(t)
    \/ ResultsLeft /\ ForceReload
    \/ \E c \in cycles : RequestResolved(c)
    \/ \E c \in cycles : RequestRejected(c)

SpecHistory == InitHistory /\ [][NextHistory]_vars

\* Cycles that fail and the cycles after them: events on two paths
NextRetry ==
    \/ \E p \in PlainPaths, c \in OneContent : FsEdit(p, c, FALSE)
    \/ \E h \in BagToSet(handlers) : ReadServed(h)
    \/ \E h \in BagToSet(handlers) : ReadComplete(h)
    \/ \E t \in timers : ResultsLeft /\ TimerFire(t)
    \/ \E c \in cycles : RequestResolved(c)
    \/ \E c \in cycles : RequestRejected(c)

InitRetry == InitHistory

SpecRetry == InitRetry /\ [][NextRetry]_vars

\* Records arriving while a cycle sends its requests: events on two paths, with
\* incremental compilation switched off in the settings, so that the full strategy
\* runs and sends the content of each file; every request is answered
InitSnapshot ==
    /\ InitConn
    /\ InitServer
    /\ InitDeploy
    /\ track = {"ev", "batch"}
    /\ config = [enabled |-> TRUE, swiftUIPreviewMode |-> TRUE,
                 incrementalCompilation |-> FALSE, autoSave |-> TRUE]
    /\ reloadHistory = <<>>
    /\ debounceTimer = NoTimer
    /\ timers = {}
    /\ changeQueue = <<>>
    /\ buildCache = [p \in Paths |-> Absent]
    /\ isReloading = FALSE
    /\ cycles = {}
    /\ handlers = EmptyBag
    /\ disk = [p \in Paths |-> "x += 1"]
    /\ srvConnected = TRUE
    /\ lastEvent = [p \in Paths |-> Absent]
    /\ burst = [paths |-> {}, ok |-> TRUE]
    /\ ev = [op |-> "init", sent |-> <<>>]

NextSnapshot ==
    \/ \E p \in PlainPaths, c \in OneContent : FsEdit(p, c, FALSE)
    \/ FsEdit("Model.swift", Absent, FALSE)
    \/ \E h \in BagToSet(handlers) : ReadServed(h)
    \/ \E h \in BagToSet(handlers) : ReadComplete(h)
    \/ \E t \in timers : TimerFire(t)
    \/ \E c \in cycles : RequestResolved(c)

SpecSnapshot == InitSnapshot /\ [][NextSnapshot]_vars

\* A manifest change among ordinary edits: the service with the manifest on disk
ManifestPaths == Paths \cup {ManifestPath}
ManifestContents == {"// swift-tools-version:5.9"}

InitManifest ==
    /\ InitConn
    /\ InitServer
    /\ InitDeploy
    /\ track = {"ev", "forced"}
    /\ config = [enabled |-> TRUE, swiftUIPreviewMode |-> TRUE,
                 incrementalCompilation |-> TRUE, autoSave |-> TRUE]
    /\ debounceTimer = NoTimer
    /\ timers = {}
    /\ changeQueue = <<>>
    /\ buildCache = [p \in ManifestPaths |-> Absent]
    /\ isReloading = FALSE
    /\ cycles = {}
    /\ handlers = EmptyBag
    /\ disk = [p \in ManifestPaths |-> "x += 1"]
    /\ srvConnected = TRUE
    /\ reloadHistory = <<>>
    /\ lastEvent = [p \in Paths |-> Absent]
    /\ burst = [paths |-> {}, ok |-> TRUE]
    /\ ev = [op |-> "init", sent |-> <<>>]

NextManifest ==
    \/ \E c \in ManifestContents : ManifestChange(c, FALSE)
    \/ \E c \in OneContent \cup {Absent} : FsEdit("Model.swift", c, FALSE)
    \/ \E h \in BagToSet(handlers) : ReadServed(h)
    \/ \E h \in BagToSet(handlers) : ReadComplete(h)
    \/ \E t \in timers : TimerFire(t)
    \/ \E c \in cycles : RequestResolved(c)
    \/ \E c \in cycles : RequestRejected(c)

SpecManifest == InitManifest /\ [][NextManifest]_vars

----------------------------------------------------------------------------
\* Properties of the reload service

\* C1: two reload cycles never execute concurrently, and a trigger (debounce timer
\* firing, forceReload, config change) that arrives while isReloading is set starts
\* no cycle and sends no request.
C1_MutualExclusion ==
    /\ [](Cardinality(cycles) <= 1 /\ (cycles # {} => isReloading))
    /\ [][(isReloading /\ ev'.op \in {"timerFire", "forceReload", "configChange"})
            => (cycles' = cycles /\ ev'.sent = <<>>)]_vars

\* A trigger was skipped because a cycle is executing
C1_Witness ==
    /\ ev.op \in {"timerFire", "forceReload"}
    /\ ev.sent = <<>>
    /\ isReloading
    /\ Cardinality(cycles) = 1

\* C2: a change recorded while a cycle is executing is not removed from the change
\* queue by that cycle (so that a later cycle can include it in its batch).
C2_RecordedChangeKept ==
    [][\A c \in cycles : \A p \in c.recorded : QueueHas(changeQueue', p)]_vars

\* The debounce timer fires (the only step that removes a timer and arms none)
TimerFired == timers' # timers /\ timers' \subseteq timers

\* C3: after a burst of events on N distinct paths with no cycle in progress, the
\* timer firing starts exactly one cycle, no other timer is armed, and the batch of
\* the cycle holds exactly the N paths of the burst.
C3_BurstIsOneBatch ==
    [][(TimerFired /\ burst.ok /\ burst.paths # {})
         => /\ timers' = {}
            /\ \E c \in cycles' :
                 /\ cycles' = cycles \cup {c}
                 /\ c \notin cycles
                 /\ SeqToSet(c.files) = burst.paths
                 /\ Len(c.files) = Cardinality(burst.paths)]_vars

HandlerInFlight(p) == \E h \in BagToSet(handlers) : h.path = p

\* C4: once the handlers of the events delivered for a path have run, the queue
\* holds one record for the path and it carries the content of the last event
\* delivered (the empty content for a deletion).
C4_LastEventWins ==
    \A p \in Paths :
        (QueueHas(changeQueue, p) /\ lastEvent[p] # Absent /\ ~HandlerInFlight(p))
            => /\ Cardinality({i \in 1..Len(changeQueue) : changeQueue[i].path = p}) = 1
               /\ QueueGet(changeQueue, p) = lastEvent[p]

\* The step is a trigger of performHotReload
Triggered == ev'.op \in {"timerFire", "forceReload"}

\* The step is the end of a cycle
CycleEnded == ev'.op \in {"cycleSuccess", "cycleFailure"}

\* C21: a trigger (debounce timer or forceReload) that finds the change queue empty
\* and no cycle running sends no request, leaves the guard clear and no cycle
\* running, and appends nothing to the history.
C21_EmptyQueueNoCycle ==
    [][(Triggered /\ changeQueue = <<>> /\ ~isReloading)
         => /\ ev'.sent = <<>>
            /\ ~isReloading'
            /\ cycles' = cycles
            /\ reloadHistory' = reloadHistory]_vars

NewestResult == reloadHistory[Len(reloadHistory)]

\* C22: the step in which a request of a cycle fails ends the cycle: the guard is
\* clear, no cycle is left suspended, and the result appended has success false and
\* an error list naming the strategy that failed; the next trigger after it starts
\* a cycle and sends its first request.
C22_FailureCaptured ==
    /\ [][ev'.op = "cycleFailure"
            => /\ ~isReloading'
               /\ cycles' = {}
               /\ Appended' = Appended + 1
               /\ ~NewestResult'.success
               /\ \E c \in cycles : NewestResult'.errors = <<StrategyLabel(c.strategy)>>]_vars
    /\ [][(ev.op = "cycleFailure" /\ Triggered)
            => (isReloading' /\ Cardinality(cycles') = 1 /\ ev'.sent # <<>>)]_vars

\* C22 witness: a cycle was started by the trigger that followed a failed cycle
C22_Witness ==
    /\ ev.op \in {"timerFire", "forceReload"}
    /\ Cardinality(cycles) = 1
    /\ Appended > InitialResults
    /\ ~NewestResult.success
    /\ NewestResult.errors # <<>>

\* C23: the history never holds more than HistoryCapacity results; it holds the
\* most recent results in the order they were appended; the end of a cycle appends
\* exactly one result, evicting the oldest when the capacity is exceeded; no other
\* step (a skipped trigger among them) changes the history.
C23_HistoryBounded ==
    /\ [](Len(reloadHistory) <= HistoryCapacity)
    /\ [](\A i \in 1..Len(reloadHistory) :
             reloadHistory[i].seq = Appended - Len(reloadHistory) + i)
    /\ [][CycleEnded
            => /\ Appended' = Appended + 1
               /\ Len(reloadHistory') = Min(Len(reloadHistory) + 1, HistoryCapacity)
               /\ \A i \in 1..(Len(reloadHistory') - 1) :
                     reloadHistory'[i] = reloadHistory[i + Len(reloadHistory) + 1
                                                        - Len(reloadHistory')]]_vars
    /\ [][~CycleEnded => reloadHistory' = reloadHistory]_vars

\* C23 witness: the history is full and its oldest result has been evicted
C23_Witness ==
    /\ Len(reloadHistory) = HistoryCapacity
    /\ reloadHistory[1].seq = 2
    /\ ev.op \in {"cycleSuccess", "cycleFailure"}

\* C24: a change of the project manifest that arrives with no cycle running leaves
\* the build cache empty and starts, in the same step, a forced cycle that runs the
\* full strategy.
C24_ManifestChangeImmediate ==
    [][(ev'.op = "configChange" /\ ~isReloading)
         => /\ \A p \in DOMAIN buildCache' : buildCache'[p] = Absent
            /\ \E c \in cycles' \ cycles : c.force /\ c.strategy = "full"]_vars

\* C28: the step that ends a cycle, by success or by failure, leaves in the build
\* cache the content of every record of the cycle's batch, appends exactly one
\* result and clears the guard.
C28_CompletionUpdatesCache ==
    [][\A c \in cycles :
          (\A d \in cycles' : d.id # c.id)
             => /\ \A i \in 1..Len(c.batch) :
                      buildCache'[c.batch[i].path] = c.batch[i].content
                /\ Appended' = Appended + 1
                /\ ~isReloading']_vars

\* The record of path p in the batch b is the record r
InBatch(b, r) == \E j \in 1..Len(b) : b[j] = r

\* C27: every file a cycle sends after its start is sent with the content its batch
\* held for it when the cycle started, and the records the cycle removes from the
\* queue when it succeeds are exactly the records of that batch.
C27_BatchIsSnapshot ==
    /\ [][ev'.op = "cycleStep"
            => \A c \in cycles : \A i \in 1..Len(ev'.sent) :
                  ev'.sent[i].path # ""
                     => InBatch(c.batch, [path |-> ev'.sent[i].path,
                                          content |-> ev'.sent[i].content])]_vars
    /\ [][ev'.op = "cycleSuccess"
            => \A c \in cycles :
                  SeqToSet(changeQueue) \ SeqToSet(changeQueue') = SeqToSet(c.batch)]_vars

----------------------------------------------------------------------------
\* Properties of the session layer

\* The step is the detection of a transport loss
LossDetected == cev'.op \in {"wsClose", "sshClose", "sshError"}

\* C5: a request issued through sendMessage while the session is not connected
\* (isConnected() is false) is rejected at once with the not-connected error, writes
\* nothing to the socket, arms no timeout and leaves the pending requests as they were.
C5_NotConnectedSendRejected ==
    [][(cev'.op = "send" /\ ~isConnected)
         => /\ cev'.outcome = "notConnected"
            /\ ~cev'.wrote
            /\ requests' = requests
            /\ pendingRequests' = pendingRequests]_vars

\* C6: the requests that are not yet completed have pairwise distinct correlation
\* ids, and each of them is the one registered under its id.
C6_PendingIdsDistinct ==
    /\ \A s1, s2 \in DOMAIN requests : s1 # s2 => requests[s1].id # requests[s2].id
    /\ \A s \in DOMAIN requests :
          requests[s].id \in DOMAIN pendingRequests /\ pendingRequests[requests[s].id] = s

\* C7: the entry of a request leaves the pending set, or is replaced, only in the
\* step that completes that request; no event for an id removes the entry of a
\* request it does not complete.
C7_ExactlyOnce ==
    [][\A id \in DOMAIN pendingRequests :
          (id \notin DOMAIN pendingRequests' \/ pendingRequests'[id] # pendingRequests[id])
             => pendingRequests[id] \notin DOMAIN requests']_vars

\* C8: the timeout of a request rejects that one request and leaves its id absent
\* from the pending set; the id stays absent until a new request is registered under
\* it, and a response that arrives for it in the meantime completes no request and
\* leaves the pending set unchanged.
C8_TimeoutThenLateResponse ==
    /\ [](timedOut \cap DOMAIN pendingRequests = {})
    /\ [][cev'.op = "timeout"
            => /\ cev'.outcome = "rejected"
               /\ cev'.id \notin DOMAIN pendingRequests'
               /\ Cardinality(DOMAIN requests') = Cardinality(DOMAIN requests) - 1]_vars
    /\ [][(cev'.op = "message" /\ cev'.id \in timedOut)
            => (requests' = requests /\ pendingRequests' = pendingRequests)]_vars

\* C8 witness: a response has arrived for the id of a request that timed out, with
\* no request registered under it
C8_Witness == cev.op = "message" /\ cev.id \in timedOut /\ cev.outcome = "unmatched"

\* C9: every detection of a transport loss (WebSocket close, SSH close, SSH error)
\* rejects each request registered as pending and leaves the pending set empty.
C9_LossRejectsAllPending ==
    [][LossDetected
         => /\ pendingRequests' = <<>>
            /\ \A id \in DOMAIN pendingRequests : pendingRequests[id] \notin DOMAIN requests']_vars

\* C10: a transport loss detected while isConnected() holds schedules a reconnect
\* attempt, and a session that is connected has its reconnect counter at 0.
C10_LossSchedulesReconnect ==
    /\ [](isConnected => reconnectAttempts = 0)
    /\ [][(LossDetected /\ isConnected) => reconnectTimers' = reconnectTimers + 1]_vars

\* A connect() call is still under way: its prompt is open, its Client is connecting,
\* or its ready handler is suspended
AttemptInFlight ==
    \E k \in 1..MaxConns :
       \/ conns[k].prompt
       \/ conns[k].ssh = "connecting"
       \/ conns[k].h \in {"tunnel", "files", "sync"}
       \/ conns[k].h = "ws" /\ conns[k].ws # "CLOSED"

C12_InitialFailureNoRetry ==
    [][\A k \in 1..MaxConns :
          (nConns = 1 /\ conns[k].promise = "pending" /\ conns'[k].promise = "rejected")
             => (~connected' /\ reconnectTimers' = reconnectTimers)]_vars

\* C13: in the step that sets the connected flag no authenticate request is still
\* unanswered.
C13_ConnectedOnlyAfterAuth ==
    [][(~connected /\ connected')
         => \A s \in DOMAIN requests' : requests'[s].caller.kind # "auth"]_vars

\* C14: disconnect() leaves the session not connected, with no request pending and
\* no reconnect timer armed, and after it no reconnect timer fires.
C14_DisconnectIsFinal ==
    /\ [][cev'.op = "disconnect"
            => (~connected' /\ pendingRequests' = <<>> /\ requests' = <<>>
                /\ reconnectTimers' = 0)]_vars
    /\ [][cev.op = "disconnect" => cev'.op # "reconnect"]_vars

\* C15: the ios-vscode.connected context value, which every write of this.connected
\* sets to the same value, equals the value of isConnected() in every state.
C15_FlagMatchesSession == connected = isConnected

\* C16: a request of a caller or of the project sync is written to the socket only
\* in a step that starts with the session connected (isConnected() true). The
\* authenticate request, which is the handshake itself, is left out.
C16_WritesOnlyWhenConnected ==
    [][(cev'.op \in {"send", "syncProject"} /\ cev'.wrote) => isConnected]_vars

\* C25: every request registered by sendMessage is eventually completed (by a
\* response, by its timeout or by the loss of the connection), whatever messages
\* the remote side sends.
C25_EveryRequestCompletes ==
    \A s \in 1..MaxPending : (s \in DOMAIN requests) ~> (s \notin DOMAIN requests)

\* C30: a message that carries the id of a pending request completes the request
\* registered under the id, by rejection when its type is 'error' and by
\* resolution otherwise, removes the id from the pending set, and is not passed to
\* a push handler.
C30_MatchedMessageSettles ==
    [][(cev'.op = "message" /\ cev'.id \in DOMAIN pendingRequests)
         => /\ cev'.outcome = (IF cev'.type = "error" THEN "rejected" ELSE "resolved")
            /\ ~cev'.pushed
            /\ cev'.id \notin DOMAIN pendingRequests'
            /\ pendingRequests[cev'.id] \notin DOMAIN requests'
            /\ \A x \in DOMAIN requests : x # pendingRequests[cev'.id]
                                             => x \in DOMAIN requests']_vars

----------------------------------------------------------------------------
\* Properties of the server

\* The positions in srvSent of the messages the handler of request n sent as reply
Replies(n) == {i \in 1..Len(srvSent) : srvSent[i].req = n}

\* C26: for every request received with an id, the server sends no reply while the
\* handler runs and exactly one when it ends with the socket still open: it carries
\* the id of the request and has type '<T>_response' after the handler of type T
\* returned, and type 'error' with data.message after it threw or the type is
\* unknown. No other message sent carries an id. (When the socket has closed
\* before the handler ends, nothing can be written to it and no reply is sent.)
C26_OneReplyPerRequest ==
    /\ \A n \in 1..Len(srvRequests) :
          LET q == srvRequests[n]
          IN q.id # 0 =>
               /\ q.state = "running" => Replies(n) = {}
               /\ (q.state # "running" /\ ~q.open) => Replies(n) = {}
               /\ (q.state # "running" /\ q.open) =>
                     /\ Cardinality(Replies(n)) = 1
                     /\ \A i \in Replies(n) :
                           /\ srvSent[i].id = q.id
                           /\ q.state = "ok" => srvSent[i].type = q.type \o "_response"
                           /\ q.state = "threw" =>
                                 (srvSent[i].type = "error" /\ srvSent[i].message)
                           /\ q.type \notin KnownTypes => q.state = "threw"
    /\ \A i \in 1..Len(srvSent) :
          srvSent[i].id # 0 => srvSent[i].req \in 1..Len(srvRequests)

\* C26 witness: a build_project request was answered with build_project_response
\* and a request of a type the server does not know with an error, each once
C26_Witness ==
    \E n, m \in 1..Len(srvRequests) :
       /\ srvRequests[n].type = "build_project" /\ srvRequests[n].id # 0
       /\ srvRequests[n].state = "ok"
       /\ \E i \in Replies(n) : srvSent[i].type = "build_project_response"
       /\ srvRequests[m].type = "swiftui_preview_update" /\ srvRequests[m].id # 0
       /\ \E i \in Replies(m) : srvSent[i].type = "error" /\ srvSent[i].id = srvRequests[m].id

----------------------------------------------------------------------------
\* Properties of the analysis and the strategy selection

Severity(type) ==
    CASE type = "logic" -> 0
      [] type = "ui-only" -> 1
      [] type = "structure" -> 2
      [] type = "dependency" -> 3

\* The classification of one file by the rules of the analyzer
FileClass(p, c) ==
    IF PathIsManifest(p) \/ HasMainMarker(c) THEN "dependency"
    ELSE IF HasStructureKeyword(c) THEN "structure"
    ELSE IF PathIsView(p) \/ HasViewMarker(c) THEN "ui-only"
    ELSE "logic"

MostSevere(q) ==
    LET classes == {FileClass(q[i].path, q[i].content) : i \in 1..Len(q)} \cup {"logic"}
    IN CHOOSE t \in classes : \A u \in classes : Severity(u) <= Severity(t)

\* C17: the classification a cycle computed for its batch is the most severe
\* classification of the files of the batch, whatever their order.
C17_MostSevereWins ==
    \A c \in cycles : c.analysis.type = MostSevere(changeQueue)

\* The batch holds the manifest, a file with an entry-point marker or a file with a
\* structural keyword
HasRebuildSignal(q) ==
    \E i \in 1..Len(q) :
       \/ PathIsManifest(q[i].path)
       \/ HasMainMarker(q[i].content)
       \/ HasStructureKeyword(q[i].content)

\* C18: a cycle whose batch holds the manifest, an entry-point marker or a
\* structural keyword has forces-full-rebuild set and runs the full strategy,
\* whatever the mode flags and the order of the files.
C18_SignalForcesFull ==
    \A c \in cycles :
       HasRebuildSignal(changeQueue)
          => (c.analysis.requiresFullRebuild /\ c.strategy = "full")

\* C18 witness: a non-forced cycle runs the full strategy with preview mode on for
\* a batch of at most 3 files whose signal comes before a view file
C18_Witness ==
    \E c \in cycles :
       /\ ~c.force
       /\ HasRebuildSignal(changeQueue)
       /\ config.swiftUIPreviewMode
       /\ Len(c.files) <= 3
       /\ PathIsView(c.files[Len(c.files)])
       /\ c.strategy = "full"

\* The strategy table: the first rule that matches
StrategyTable(analysis, cfg) ==
    IF analysis.type = "ui-only" /\ cfg.swiftUIPreviewMode /\ Len(analysis.files) <= 3
    THEN "swiftui-preview"
    ELSE IF cfg.incrementalCompilation /\ ~analysis.requiresFullRebuild
            /\ Len(analysis.files) <= 10
    THEN "incremental"
    ELSE "full"

\* C19: the strategy of every non-forced cycle is the one the table gives for its
\* analysis and the configuration.
C19_StrategyFollowsTable ==
    \A c \in cycles : ~c.force => c.strategy = StrategyTable(c.analysis, config)

\* The cost the estimate rules give for a classification and a file count
ClampedCost(type, n) ==
    CASE type = "ui-only" -> IF 200 * n < 2000 THEN 200 * n ELSE 2000
      [] type = "logic" -> IF 500 * n < 5000 THEN 500 * n ELSE 5000
      [] type = "structure" -> IF 1000 * n < 15000 THEN 1000 * n ELSE 15000
      [] type = "dependency" -> 30000

\* C29: the estimated cost of the analysis of a cycle is the per-file unit cost
\* times the file count, clamped to the ceiling of the classification (200 ms up to
\* 2000 for ui-only, 500 up to 5000 for logic, 1000 up to 15000 for structure), and
\* 30000 ms for dependency whatever the file count.
C29_CostIsClamped ==
    \A c \in cycles :
       c.analysis.estimatedRebuildTime = ClampedCost(c.analysis.type, Len(c.analysis.files))

\* C29 witness: a structural batch of more than 15 files is estimated at the ceiling
C29_Witness ==
    \E c \in cycles :
       /\ c.analysis.type = "structure"
       /\ Len(c.analysis.files) > 15
       /\ c.analysis.estimatedRebuildTime = 15000

\* The number of requests of a type among the requests sent so far
SentCount(type) == Cardinality({i \in 1..Len(ev.sent) : ev.sent[i].type = type})

\* The edit was made and every handler, timer and cycle it started has finished
EditSettled ==
    /\ disk["LoginView.swift"] \in ViewContents
    /\ handlers = EmptyBag
    /\ timers = {}
    /\ cycles = {}

\* C20: the edit of the view file never causes a build_project request nor a second
\* swiftui_preview_update request, and once everything it started has finished
\* exactly one swiftui_preview_update request has been sent.
C20_OnePreviewUpdate ==
    /\ SentCount("build_project") = 0
    /\ SentCount("swiftui_preview_update") <= 1
    /\ EditSettled => SentCount("swiftui_preview_update") = 1


\* C31: a message without id settles no request and leaves the pending set and
\* every request as they were; it reaches the push handler of its type when one
\* is registered and is dropped otherwise.
C31_NoIdLeavesPending ==
    [][(cev'.op = "message" /\ cev'.id = 0 /\ cev' # cev)
         => /\ pendingRequests' = pendingRequests
            /\ requests' = requests
            /\ cev'.outcome = "unmatched"
            /\ cev'.pushed = (cev'.type \in PushTypes)]_vars

C31_Witness ==
    /\ cev.op = "message" /\ cev.id = 0 /\ cev.outcome = "unmatched"
    /\ cev.type = "error" /\ cev.pushed
    /\ \E id \in DOMAIN pendingRequests : requests[pendingRequests[id]].timer


\* C32: the cycle started by a debounce timer that stands for a forced rebuild (it
\* was armed by a manifest change, or it replaced such a timer before that one
\* fired) runs the full strategy.
C32_ForcedNotDowngraded ==
    [][\A t \in timers :
          (t.wanted /\ t \notin timers' /\ ev'.op = "timerFire" /\ ~isReloading)
             => \E c \in cycles' : c.strategy = "full"]_vars


\* C33: in the step that ends a cycle with success, every cache entry the cycle
\* writes holds the content a request of this cycle carried for that path.
C33_CacheHoldsWhatWasSent ==
    [][ev'.op = "cycleSuccess"
         => \A c \in cycles : \A i \in 1..Len(changeQueue) :
               \E j \in 1..Len(c.sent) :
                  /\ c.sent[j].path = changeQueue[i].path
                  /\ c.sent[j].content = buildCache'[changeQueue[i].path]]_vars


\* The paths of the records in the queue
QueuedPaths(q) == {q[i].path : i \in 1..Len(q)}

\* C34: the step in which a cycle fails changes neither the queue nor the cache and
\* leaves every path of the failed batch queued; a record leaves the queue only in
\* the step that ends a cycle with success; and the batch of a cycle that starts
\* holds every path queued. Hence the batch of the cycle that follows a failed one
\* includes every path of the failed batch.
C34_FailureKeepsBatch ==
    /\ [][ev'.op = "cycleFailure"
            => /\ changeQueue' = changeQueue
               /\ buildCache' = buildCache
               /\ \A c \in cycles : SeqToSet(c.files) \subseteq QueuedPaths(changeQueue')]_vars
    /\ [][ev'.op # "cycleSuccess" => QueuedPaths(changeQueue) \subseteq QueuedPaths(changeQueue')]_vars
    /\ [][\A c \in cycles' :
            (\A d \in cycles : d.id # c.id) => SeqToSet(c.files) = QueuedPaths(changeQueue)]_vars

\* C34 witness: the cycle that follows a failed cycle has started with both paths
\* in its batch
C34_Witness ==
    /\ ev.op = "timerFire"
    /\ Appended > InitialResults
    /\ ~NewestResult.success
    /\ \E c \in cycles : SeqToSet(c.files) = PlainPaths


\* The request types that carry the content of an edited file
ContentPushTypes == {"swiftui_preview_update", "sync_file"}

\* C35: a request that carries the content of an edited file is sent only by the
\* step of a reload cycle that holds the guard, that is, a step that starts a cycle
\* or advances the running one.
C35_PushOnlyInsideCycle ==
    [][\A i \in (Len(ev.sent) + 1)..Len(ev'.sent) :
          ev'.sent[i].type \in ContentPushTypes
             => /\ isReloading'
                /\ \E c \in cycles' : c \notin cycles]_vars


\* The step is the delivery of a watcher event to its handler (an ordinary file
\* event or a manifest change), not the continuation of a handler started earlier
WatcherEvent ==
    \/ ev'.op \in {"eventDropped", "event", "configChange"}
    \/ ev'.op = "record" /\ handlers' = handlers

\* C36: a watcher event delivered while hot reload is disabled or the session is
\* not connected records no change, arms no debounce timer and starts no cycle.
C36_DisabledIgnoresEvents ==
    [][((~config.enabled \/ ~srvConnected) /\ WatcherEvent)
         => /\ changeQueue' = changeQueue
            /\ timers' = timers
            /\ debounceTimer' = debounceTimer
            /\ cycles' = cycles]_vars


\* C37: a request of a type that a reload strategy sends, received on an open
\* socket whose client has authenticated, is not answered with the error of the
\* dispatcher's default branch ('Unknown message type').
C37_StrategyTypesHandled ==
    [][\A n \in (Len(srvRequests) + 1)..Len(srvRequests') :
          (srvSessions > 0 /\ srvRequests'[n].type \in StrategyTypes)
             => ~(UnknownType(srvRequests'[n].type) /\ srvRequests'[n].state = "threw")]_vars


\* The step delivers the close of the WebSocket of connection k, or the close or
\* error of its SSH client
LossEventOf(k) ==
    \/ conns[k].ws # "CLOSED" /\ conns'[k].ws = "CLOSED"
    \/ conns[k].ssh # conns'[k].ssh /\ conns'[k].ssh \in {"closing", "closed"}

\* Connection k is not the one the session now runs on
Superseded(k) == k # websocket /\ k # sshClient

\* C38: with the session connected on its current connection, a close or error
\* event of a superseded connection leaves the connected flag set and the pending
\* requests as they were.
C38_StaleEventsHarmless ==
    [][\A k \in 1..MaxConns :
          (isConnected /\ Superseded(k) /\ LossEventOf(k))
             => /\ connected'
                /\ pendingRequests' = pendingRequests
                /\ requests' = requests]_vars


\* The connect() calls still under way
AttemptsInFlight ==
    {k \in 1..MaxConns :
        \/ conns[k].prompt
        \/ conns[k].ssh = "connecting"
        \/ conns[k].h \in {"tunnel", "files", "sync"}
        \/ conns[k].h = "ws" /\ conns[k].ws # "CLOSED"}

\* C39: the reconnect timers armed and the connection attempts under way number
\* at most one together.
C39_OneAttemptAtATime == reconnectTimers + Cardinality(AttemptsInFlight) <= 1


\* The deployToTarget call d ends in this step
DeployEnded(d) == d \in deployments /\ \A e \in deployments' : e.obj # d.obj

\* C40: a target has status 'deploying' only while a deployToTarget call for it is
\* running; a call for a target that is not 'available' sends no request and
\* changes no status; and in the step that ends a deployment the status of its
\* target is 'available'.
C40_DeployingOnlyWhileRunning ==
    /\ [](\A t \in DeployTargets :
             deploymentTargets[t].status = "deploying"
                => \E d \in deployments : d.target = t)
    /\ [][\A t \in DeployTargets :
            (dev'.op \in {"deployStart", "deployRefused"} /\ dev'.target = t
               /\ dev' # dev /\ deploymentTargets[t].status # "available")
               => /\ dev'.sent = <<>>
                  /\ deploymentTargets' = deploymentTargets
                  /\ deployments' = deployments]_vars
    /\ [][\A d \in deployments :
            DeployEnded(d) => deploymentTargets'[d.target].status = "available"]_vars

====
